---- MODULE Spec2Model ----
(***************************************************************************)
(* Model of the request-authorization pipeline of pycommon                 *)
(* (src/pycommon/authz.py): the validated decorator, _parse_token,         *)
(* api_claims, get_claims, is_rate_limited, _determine_api_user,           *)
(* _validate_data and _parse_and_validate, with the exception classes of   *)
(* src/exceptions.py.                                                      *)
(*                                                                         *)
(* Python strings that the code inspects character by character (header    *)
(* names and values, tokens) are sequences of one-character strings.       *)
(* Python dicts are functions on their key set; a missing key is a key     *)
(* outside DOMAIN.                                                         *)
(***************************************************************************)
EXTENDS Integers, Sequences, FiniteSets, TLC

VARIABLES
    access_types,        \* global _access_types
    validate_rules,      \* global _validate_rules
    permission_checker,  \* global _permission_checker
    now,                 \* the clock read by datetime.now(): [day, hour]
    api_keys_table,      \* the API-key registry (API_KEYS_DYNAMODB_TABLE)
    env,                 \* names of the environment variables that are set
    event,               \* the inbound event of the request in flight
    op,                  \* validated(op, ...)
    validate_body,       \* validated(..., validate_body)
    jwks,                \* behaviour of the key-set endpoint for this request
    pc,                  \* position of the wrapper
    token,               \* local token of wrapper
    api_accessed,        \* local api_accessed of wrapper
    claims,              \* local claims of wrapper
    name,                \* route returned by _parse_and_validate
    data,                \* data returned by _parse_and_validate
    response,            \* value returned by wrapper, or NoValue
    raised,              \* exception leaving wrapper, or NoValue
    exc,                 \* exception raised inside wrapper, or NoValue
    stages,              \* stages run for this request: <<[stage, ok]>>
    handler_calls,       \* arguments of each call of the wrapped handler f
    checker_calls,       \* steps of the permission checker that were called
    lookups,             \* external reads made for this request
    writes,              \* external writes made for this request
    nreq,                \* requests started so far
    fn_args,             \* arguments of a function called on its own
    fn_result,           \* what that call returned or raised, or NoValue
    threads              \* the wrappers that run concurrently, by thread

vars == <<access_types, validate_rules, permission_checker, now,
          api_keys_table, env, event, op, validate_body, jwks, pc, token,
          api_accessed, claims, name, data, response, raised, exc, stages,
          handler_calls, checker_calls, lookups, writes, nreq, fn_args,
          fn_result, threads>>

(***************************************************************************)
(* Bounds of the model                                                     *)
(***************************************************************************)
MaxRequests == 1
MaxAccessAdds == 1
\* number of pieces an authorization header value is made of
MaxPieces == 4
\* number of entries of an hourlyCost column that was cut short
ShortDay == 13

(***************************************************************************)
(* Python values                                                           *)
(***************************************************************************)
\* None, for Optional[str] values held as TLA+ strings
None == "<None>"
\* the absence of a value in a variable of the model
NoValue == [none |-> TRUE]

\* dict.get(k, default)
Get(d, k, default) == IF k \in DOMAIN d THEN d[k] ELSE default

\* a call that returned v / a call that raised e
Ret(v) == [kind |-> "return", value |-> v]
Raise(e) == [kind |-> "raise", exc |-> e]

(***************************************************************************)
(* Exceptions (src/exceptions.py and the built-in ones the code raises)    *)
(***************************************************************************)
HTTPException(status_code, message) ==
    [type |-> "HTTPException", status_code |-> status_code, message |-> message]
HTTPBadRequest(message) ==
    [type |-> "HTTPBadRequest", status_code |-> 400, message |-> message]
HTTPUnauthorized(message) ==
    [type |-> "HTTPUnauthorized", status_code |-> 401, message |-> message]
HTTPNotFound(message) ==
    [type |-> "HTTPNotFound", status_code |-> 404, message |-> message]
ClaimException(message) == [type |-> "ClaimException", message |-> message]
EnvVarError(message) == [type |-> "EnvVarError", message |-> message]
UnknownApiUserException(message) ==
    [type |-> "UnknownApiUserException", message |-> message]
\* built-in exceptions: LookupError, PermissionError, KeyError, TypeError, ...
BuiltinError(type, message) == [type |-> type, message |-> message]

\* isinstance(e, HTTPException): the class and its three subclasses
IsHTTPException(e) ==
    e.type \in {"HTTPException", "HTTPBadRequest", "HTTPUnauthorized",
                "HTTPNotFound"}

(***************************************************************************)
(* Strings as character sequences                                          *)
(***************************************************************************)
UpperChars == <<"A", "B", "C", "D", "E", "F", "G", "H", "I", "J", "K", "L", "M",
               "N", "O", "P", "Q", "R", "S", "T", "U", "V", "W", "X", "Y", "Z">>
LowerChars == <<"a", "b", "c", "d", "e", "f", "g", "h", "i", "j", "k", "l", "m",
               "n", "o", "p", "q", "r", "s", "t", "u", "v", "w", "x", "y", "z">>

\* str.lower() on one character of the model's alphabet
LowerChar(c) ==
    IF \E i \in 1..Len(UpperChars) : UpperChars[i] = c
    THEN LowerChars[CHOOSE i \in 1..Len(UpperChars) : UpperChars[i] = c]
    ELSE c

\* str.lower()
Lower(s) == [i \in 1..Len(s) |-> LowerChar(s[i])]

\* str.isspace() on one character
IsSpace(c) == c \in {" ", "\t", "\n"}

\* s[:n]
Prefix(s, n) == SubSeq(s, 1, IF n < Len(s) THEN n ELSE Len(s))

\* s.startswith(p)
StartsWith(s, p) == Len(s) >= Len(p) /\ SubSeq(s, 1, Len(p)) = p

RECURSIVE SplitFrom(_, _, _, _)
\* str.split() with no separator: the maximal runs of non-whitespace
\* characters, scanning s from position i with the current run in cur
SplitFrom(s, i, cur, acc) ==
    IF i > Len(s)
    THEN IF cur = <<>> THEN acc ELSE Append(acc, cur)
    ELSE IF IsSpace(s[i])
         THEN SplitFrom(s, i + 1, <<>>,
                        IF cur = <<>> THEN acc ELSE Append(acc, cur))
         ELSE SplitFrom(s, i + 1, Append(cur, s[i]), acc)

Split(s) == SplitFrom(s, 1, <<>>, <<>>)

(***************************************************************************)
(* _parse_token                                                            *)
(***************************************************************************)
Authorization == <<"a", "u", "t", "h", "o", "r", "i", "z", "a", "t", "i", "o", "n">>
Bearer == <<"b", "e", "a", "r", "e", "r">>

\* {k.lower(): v for k, v in headers.items()}: headers is the list of the
\* dict's items in iteration order; a later item overwrites an earlier one
\* with the same lower-cased name
RECURSIVE NormalizedHeaders(_)
NormalizedHeaders(headers) ==
    IF headers = <<>> THEN <<>>
    ELSE LET rest == NormalizedHeaders(SubSeq(headers, 1, Len(headers) - 1))
             last == headers[Len(headers)]
             k == Lower(last[1])
             kept == SelectSeq(rest, LAMBDA kv : kv[1] # k)
         IN  Append(kept, <<k, last[2]>>)

HasKey(items, k) == \E i \in 1..Len(items) : items[i][1] = k
Lookup(items, k) == items[CHOOSE i \in 1..Len(items) : items[i][1] = k][2]

\* ParseToken without the test of the scheme
ParseTokenAnyScheme(ev) ==
    LET normalized_headers == NormalizedHeaders(ev.headers)
        parts == IF HasKey(normalized_headers, Authorization)
                 THEN Split(Lookup(normalized_headers, Authorization))
                 ELSE <<>>
    IN  IF HasKey(normalized_headers, Authorization) /\ Len(parts) = 2
        THEN Ret(parts[2])
        ELSE Raise(HTTPUnauthorized("No Access Token Found"))

\* lines 638-667
ParseToken(ev) ==
    LET normalized_headers == NormalizedHeaders(ev.headers)
        parts == IF HasKey(normalized_headers, Authorization)
                 THEN Split(Lookup(normalized_headers, Authorization))
                 ELSE <<>>
    IN  IF /\ HasKey(normalized_headers, Authorization)
           /\ Len(parts) = 2
           /\ Lower(parts[1]) = Bearer
        THEN Ret(parts[2])
        ELSE Raise(HTTPUnauthorized("No Access Token Found"))

(***************************************************************************)
(* Tagged Python values, for fields whose type the code tests              *)
(***************************************************************************)
PyNone == [t |-> "NoneType"]
PyStr(s) == [t |-> "str", v |-> s]
PyNum(n) == [t |-> "num", v |-> n]
PyList(l) == [t |-> "list", v |-> l]

\* bool(v)
Truthy(v) ==
    CASE v.t = "NoneType" -> FALSE
      [] v.t = "str" -> v.v # <<>>
      [] v.t = "num" -> v.v # 0
      [] v.t = "list" -> v.v # <<>>

(***************************************************************************)
(* Constants of src/pycommon/const.py                                      *)
(***************************************************************************)
UNLIMITED == "Unlimited"
NO_RATE_LIMIT == [period |-> UNLIMITED, rate |-> PyNone]
FULL_ACCESS == "full_access"

(***************************************************************************)
(* required_env_vars (src/decorators.py)                                   *)
(***************************************************************************)
AllEnv == {"API_KEYS_DYNAMODB_TABLE", "COST_CALCULATIONS_DYNAMO_TABLE",
           "OAUTH_ISSUER_BASE_URL", "OAUTH_AUDIENCE", "ACCOUNTS_DYNAMO_TABLE"}

\* the first of the required variables (in the decorator's order) that is
\* not set, or None
RECURSIVE FirstMissing(_, _)
FirstMissing(required, envv) ==
    IF required = <<>> THEN None
    ELSE IF Head(required) \notin envv THEN Head(required)
         ELSE FirstMissing(Tail(required), envv)

EnvError(var) == EnvVarError("Env Var: '" \o var \o "' is not set")

(***************************************************************************)
(* The external stores                                                     *)
(***************************************************************************)
\* user names
Alice == <<"a", "l">>
Bob == <<"b", "o">>
Carol == <<"c", "a">>

\* amounts of money are in cents
HoursPerDay == 24

\* the usage store (COST_CALCULATIONS_DYNAMO_TABLE): items by id
\* the hours of the day at which the model's clock may stand
Hours == {13}
\* an hourlyCost column: c at the hours of Hours, other elsewhere
HourlyAt(c, other) ==
    [h \in 1..HoursPerDay |-> PyNum(IF (h - 1) \in Hours THEN c ELSE other)]

\* the usage store (COST_CALCULATIONS_DYNAMO_TABLE): items by id
CostCalcTable ==
    [status |-> "ok",
     items |-> (Alice :> [hourlyCost |-> PyList(HourlyAt(200, 900)),
                          dailyCost |-> PyNum(900)]
             @@ Bob :> [hourlyCost |-> PyList(HourlyAt(600, 0)),
                        dailyCost |-> PyNum(900)]
             @@ Carol :> [hourlyCost |-> PyList(HourlyAt(200, 900))])]

\* str.lower() on a period name
PeriodLower(period) ==
    CASE period = "Hourly" -> "hourly"
      [] period = "HOURLY" -> "hourly"
      [] period = "Daily" -> "daily"
      [] period = "Monthly" -> "monthly"
      [] OTHER -> period

\* f"{rate:.2f}" for an amount in cents
Format2f(cents) ==
    ToString(cents \div 100) \o "." \o ToString((cents % 100) \div 10)
        \o ToString(cents % 10)

(***************************************************************************)
(* is_rate_limited                                                         *)
(***************************************************************************)
NotLimited(msg) == Ret(<<FALSE, msg>>)

\* IsRateLimitedBody comparing with > in place of >=
IsRateLimitedBodyStrict(current_user, rate_limit, clock, table) ==
    LET period == Get(rate_limit, "period", None)
        items == IF current_user \in DOMAIN table.items
                 THEN <<table.items[current_user]>> ELSE <<>>
        rate_data == items[1]
        col_name == PeriodLower(period) \o "Cost"
        col == Get(rate_data, col_name, PyNone)
        current_hour == clock.hour
        spent == IF period = "Hourly" THEN col.v[current_hour + 1] ELSE col
        rate_val == Get(rate_limit, "rate", PyNone)
    IN  IF period = None
        THEN NotLimited("Rate limit period is not specified in the rate_limit data")
        ELSE IF period = UNLIMITED
        THEN NotLimited("No rate limit set")
        ELSE IF table.status = "Boto3Error"
        THEN NotLimited("Error accessing DynamoDB for rate limit check")
        ELSE IF table.status # "ok"
        THEN NotLimited("Unexpected error during rate limit check")
        ELSE IF items = <<>>
        THEN NotLimited("Table entry does not exist. Cannot verify if rate limited.")
        ELSE IF col.t = "NoneType"
        THEN NotLimited("Column " \o col_name \o " not found in rate data")
        ELSE IF period = "Hourly" /\ (col.t # "list" \/ current_hour >= Len(col.v))
        THEN NotLimited("Hourly cost data is missing or malformed.")
        ELSE IF rate_val.t = "NoneType"
        THEN NotLimited("Rate value missing in rate_limit.")
        ELSE IF rate_val.t # "num" \/ spent.t # "num"
        THEN NotLimited("Unexpected error during rate limit check")
        ELSE IF spent.v > rate_val.v
        THEN Ret(<<TRUE, "rate limit exceeded ($" \o Format2f(rate_val.v)
                            \o "/" \o period \o ")">>)
        ELSE NotLimited("Rate limit not exceeded")

\* lines 585-635
IsRateLimitedBody(current_user, rate_limit, clock, table) ==
    LET period == Get(rate_limit, "period", None)
        items == IF current_user \in DOMAIN table.items
                 THEN <<table.items[current_user]>> ELSE <<>>
        rate_data == items[1]
        col_name == PeriodLower(period) \o "Cost"
        col == Get(rate_data, col_name, PyNone)
        current_hour == clock.hour
        spent == IF period = "Hourly" THEN col.v[current_hour + 1] ELSE col
        rate_val == Get(rate_limit, "rate", PyNone)
    IN  IF period = None
        THEN NotLimited("Rate limit period is not specified in the rate_limit data")
        ELSE IF period = UNLIMITED
        THEN NotLimited("No rate limit set")
        ELSE IF table.status = "Boto3Error"
        THEN NotLimited("Error accessing DynamoDB for rate limit check")
        ELSE IF table.status # "ok"
        THEN NotLimited("Unexpected error during rate limit check")
        ELSE IF items = <<>>
        THEN NotLimited("Table entry does not exist. Cannot verify if rate limited.")
        ELSE IF col.t = "NoneType"
        THEN NotLimited("Column " \o col_name \o " not found in rate data")
        ELSE IF period = "Hourly" /\ (col.t # "list" \/ current_hour >= Len(col.v))
        THEN NotLimited("Hourly cost data is missing or malformed.")
        ELSE IF rate_val.t = "NoneType"
        THEN NotLimited("Rate value missing in rate_limit.")
        \* float(rate) of a non-number, or >= on a non-number: caught by
        \* except Exception
        ELSE IF rate_val.t # "num" \/ spent.t # "num"
        THEN NotLimited("Unexpected error during rate limit check")
        ELSE IF spent.v >= rate_val.v
        THEN Ret(<<TRUE, "rate limit exceeded ($" \o Format2f(rate_val.v)
                            \o "/" \o period \o ")">>)
        ELSE NotLimited("Rate limit not exceeded")

\* IsRateLimited reading the hourly column one hour late
IsRateLimitedNextHour(current_user, rate_limit, envv, clock, table) ==
    IF "COST_CALCULATIONS_DYNAMO_TABLE" \notin envv
    THEN Raise(EnvError("COST_CALCULATIONS_DYNAMO_TABLE"))
    ELSE IsRateLimitedBody(current_user, rate_limit,
                           [clock EXCEPT !.hour = (clock.hour + 1) % HoursPerDay],
                           table)

\* IsRateLimited letting an error of the usage store out
IsRateLimitedUncaught(current_user, rate_limit, envv, clock, table) ==
    IF "COST_CALCULATIONS_DYNAMO_TABLE" \notin envv
    THEN Raise(EnvError("COST_CALCULATIONS_DYNAMO_TABLE"))
    ELSE IF Get(rate_limit, "period", None) \notin {None, UNLIMITED}
            /\ table.status # "ok"
    THEN Raise(BuiltinError(table.status, "the usage store failed"))
    ELSE IsRateLimitedBody(current_user, rate_limit, clock, table)

\* lines 571-635: the decorator, then the body
IsRateLimited(current_user, rate_limit, envv, clock, table) ==
    IF "COST_CALCULATIONS_DYNAMO_TABLE" \notin envv
    THEN Raise(EnvError("COST_CALCULATIONS_DYNAMO_TABLE"))
    ELSE IsRateLimitedBody(current_user, rate_limit, clock, table)

(***************************************************************************)
(* _determine_api_user                                                     *)
(***************************************************************************)
KeySlash == <<"K", "e", "y", "/">>

\* the ends j of the candidate groups s[i+1 .. j-1] of r"/(.*?)Key/" for a
\* match that starts at the "/" in position i ("." does not match "\n")
KeyEnds(s, i) ==
    {j \in (i + 1)..(Len(s) - 3) :
        /\ SubSeq(s, j, j + 3) = KeySlash
        /\ \A k \in (i + 1)..(j - 1) : s[k] # "\n"}

Min(S) == CHOOSE x \in S : \A y \in S : x <= y

\* key_type_pattern.search(s): group 1 of the leftmost match, shortest
\* group first, as PyStr; PyNone when there is no match
KeyTypeOf(s) ==
    LET starts == {i \in 1..Len(s) : s[i] = "/" /\ KeyEnds(s, i) # {}}
        i0 == Min(starts)
        j0 == Min(KeyEnds(s, i0))
    IN  IF starts = {} THEN PyNone ELSE PyStr(SubSeq(s, i0 + 1, j0 - 1))

OwnerKind == <<"o", "w", "n", "e", "r">>
DelegateKind == <<"d", "e", "l", "e", "g", "a", "t", "e">>
SystemKind == <<"s", "y", "s", "t", "e", "m">>

\* DetermineApiUser returning whatever the identity field holds
DetermineApiUserAnyValue(item) ==
    LET key_type == KeyTypeOf(Get(item, "api_owner_id", <<>>))
        kind == CASE key_type = PyStr(OwnerKind) -> "owner"
                  [] key_type = PyStr(DelegateKind) -> "delegate"
                  [] key_type = PyStr(SystemKind) -> "system"
                  [] OTHER -> None
        field == IF kind = "system" THEN "systemId" ELSE kind
        user == Get(item, field, PyNone)
    IN  IF kind = None
        THEN Raise(UnknownApiUserException("Invalid or unrecognized key type."))
        ELSE IF user.t = "NoneType"
        THEN Raise(UnknownApiUserException(
                 "Missing or invalid user identifier for key type '"
                 \o kind \o "'."))
        ELSE Ret(user.v)

\* lines 526-568
DetermineApiUser(item) ==
    LET key_type == KeyTypeOf(Get(item, "api_owner_id", <<>>))
        kind == CASE key_type = PyStr(OwnerKind) -> "owner"
                  [] key_type = PyStr(DelegateKind) -> "delegate"
                  [] key_type = PyStr(SystemKind) -> "system"
                  [] OTHER -> None
        field == IF kind = "system" THEN "systemId" ELSE kind
        user == Get(item, field, PyNone)
    IN  IF kind = None
        THEN Raise(UnknownApiUserException("Invalid or unrecognized key type."))
        ELSE IF ~Truthy(user) \/ user.t # "str"
        THEN Raise(UnknownApiUserException(
                 "Missing or invalid user identifier for key type '"
                 \o kind \o "'."))
        ELSE Ret(user.v)

(***************************************************************************)
(* TokenV1 (src/pycommon/api_utils.py)                                     *)
(***************************************************************************)
AmpPrefix == <<"a", "m", "p", "-">>
AmpV1Prefix == <<"a", "m", "p", "-", "v", "1", "-">>

\* _key_generator: the digest of the raw key. The digest is a string that
\* is a function of the whole raw key and is never itself a raw key
KeyGenerator(raw_key) == <<"#">> \o raw_key

\* TokenV1(key).key for a non-empty key
TokenV1Key(key) ==
    IF ~StartsWith(key, AmpPrefix)
    THEN Raise(BuiltinError("ValueError", "TokenV1 key must start with 'amp-'."))
    ELSE Ret(KeyGenerator(key))

(***************************************************************************)
(* api_claims                                                              *)
(***************************************************************************)
\* table.query on ApiKeyIndex: the items whose apiKey is lookup_value
QueryApiKey(table, lookup_value) ==
    LET ids == {id \in DOMAIN table : table[id].apiKey = lookup_value}
    IN  IF ids = {} THEN <<>> ELSE <<table[CHOOSE id \in ids : TRUE]>>

\* AnyAccess looking at the first accepted type only
AnyAccessFirstOnly(access, accepted) ==
    \E j \in 1..Len(access) : accepted[1] = access[j]

\* any(access_type in access for access_type in _access_types)
AnyAccess(access, accepted) ==
    \E i \in 1..Len(accepted) : \E j \in 1..Len(access) : accepted[i] = access[j]

\* TouchLastAccessed for keys that can be used once
TouchAndDeactivate(table, id, clock) ==
    [table EXCEPT ![id] = [k \in DOMAIN table[id] \cup {"lastAccessed", "active"} |->
                              IF k = "lastAccessed" THEN clock
                              ELSE IF k = "active" THEN FALSE
                              ELSE table[id][k]]]

\* the write of api_claims: SET lastAccessed = :now on the item of the key
TouchLastAccessed(table, id, clock) ==
    [table EXCEPT ![id] = [k \in DOMAIN table[id] \cup {"lastAccessed"} |->
                              IF k = "lastAccessed" THEN clock ELSE table[id][k]]]

\* the outcome of a call with the external calls it made
Outcome(result, reads, wrts) == [result |-> result, lookups |-> reads, writes |-> wrts]

\* ApiClaimsBody looking at the expiration date before the active flag
ApiClaimsBodyExpiryFirst(tok, table, accepted, envv, clock, cost_table) ==
    LET v1 == Prefix(tok, 7) = AmpV1Prefix
        lookup_value == IF v1 THEN TokenV1Key(tok).value ELSE tok
        query == [store |-> "api_keys", key |-> lookup_value, by_digest |-> v1]
        items == QueryApiKey(table, lookup_value)
        item == items[1]
        expiration_date == Get(item, "expirationDate", 0)
        access == Get(item, "accessTypes", <<>>)
        who == DetermineApiUser(item)
        current_user == who.value
        rate_limit == Get(item, "rateLimit", <<>>)
        limit == IsRateLimited(current_user, rate_limit, envv, clock, cost_table)
        usage == IF /\ "COST_CALCULATIONS_DYNAMO_TABLE" \in envv
                    /\ Get(rate_limit, "period", None) \notin {None, UNLIMITED}
                 THEN <<[store |-> "usage", key |-> current_user, by_digest |-> FALSE]>>
                 ELSE <<>>
        touch == [store |-> "api_keys", key |-> item.api_owner_id,
                  field |-> "lastAccessed"]
    IN  IF items = <<>>
        THEN Outcome(Raise(BuiltinError("LookupError", "API key not found.")),
                     <<query>>, <<>>)
        ELSE IF expiration_date # 0 /\ expiration_date <= clock.day
        THEN Outcome(Raise(BuiltinError("PermissionError", "API key has expired.")),
                     <<query>>, <<>>)
        ELSE IF ~Get(item, "active", FALSE)
        THEN Outcome(Raise(BuiltinError("PermissionError", "API key is inactive.")),
                     <<query>>, <<>>)
        ELSE IF ~AnyAccess(access, accepted)
        THEN Outcome(Raise(BuiltinError("PermissionError",
                 "API key does not have access to the required functionality.")),
                     <<query>>, <<>>)
        ELSE IF who.kind = "raise"
        THEN Outcome(who, <<query>>, <<>>)
        ELSE IF limit.kind = "raise"
        THEN Outcome(limit, <<query>> \o usage, <<>>)
        ELSE IF limit.value[1]
        THEN Outcome(Raise(HTTPUnauthorized(limit.value[2])), <<query>> \o usage, <<>>)
        ELSE IF "account" \notin DOMAIN item
        THEN Outcome(Raise(BuiltinError("KeyError", "account")),
                     <<query>> \o usage, <<touch>>)
        ELSE Outcome(Ret([username |-> PyStr(current_user),
                          account |-> item.account.id,
                          allowed_access |-> access,
                          rate_limit |-> rate_limit,
                          api_key_id |-> item.api_owner_id,
                          purpose |-> Get(item, "purpose", None)]),
                     <<query>> \o usage, <<touch>>)

\* lines 448-523
ApiClaimsBody(tok, table, accepted, envv, clock, cost_table) ==
    LET v1 == Prefix(tok, 7) = AmpV1Prefix
        lookup_value == IF v1 THEN TokenV1Key(tok).value ELSE tok
        query == [store |-> "api_keys", key |-> lookup_value, by_digest |-> v1]
        items == QueryApiKey(table, lookup_value)
        item == items[1]
        expiration_date == Get(item, "expirationDate", 0)
        access == Get(item, "accessTypes", <<>>)
        who == DetermineApiUser(item)
        current_user == who.value
        rate_limit == Get(item, "rateLimit", <<>>)
        limit == IsRateLimited(current_user, rate_limit, envv, clock, cost_table)
        usage == IF /\ "COST_CALCULATIONS_DYNAMO_TABLE" \in envv
                    /\ Get(rate_limit, "period", None) \notin {None, UNLIMITED}
                 THEN <<[store |-> "usage", key |-> current_user, by_digest |-> FALSE]>>
                 ELSE <<>>
        touch == [store |-> "api_keys", key |-> item.api_owner_id,
                  field |-> "lastAccessed"]
    IN  IF items = <<>>
        THEN Outcome(Raise(BuiltinError("LookupError", "API key not found.")),
                     <<query>>, <<>>)
        ELSE IF ~Get(item, "active", FALSE)
        THEN Outcome(Raise(BuiltinError("PermissionError", "API key is inactive.")),
                     <<query>>, <<>>)
        ELSE IF expiration_date # 0 /\ expiration_date <= clock.day
        THEN Outcome(Raise(BuiltinError("PermissionError", "API key has expired.")),
                     <<query>>, <<>>)
        ELSE IF ~AnyAccess(access, accepted)
        THEN Outcome(Raise(BuiltinError("PermissionError",
                 "API key does not have access to the required functionality.")),
                     <<query>>, <<>>)
        ELSE IF who.kind = "raise"
        THEN Outcome(who, <<query>>, <<>>)
        ELSE IF limit.kind = "raise"
        THEN Outcome(limit, <<query>> \o usage, <<>>)
        ELSE IF limit.value[1]
        THEN Outcome(Raise(HTTPUnauthorized(limit.value[2])), <<query>> \o usage, <<>>)
        ELSE IF "account" \notin DOMAIN item
        THEN Outcome(Raise(BuiltinError("KeyError", "account")),
                     <<query>> \o usage, <<touch>>)
        ELSE Outcome(Ret([username |-> PyStr(current_user),
                          account |-> item.account.id,
                          allowed_access |-> access,
                          rate_limit |-> rate_limit,
                          api_key_id |-> item.api_owner_id,
                          purpose |-> Get(item, "purpose", None)]),
                     <<query>> \o usage, <<touch>>)

ApiClaims(tok, table, accepted, envv, clock, cost_table) ==
    IF "API_KEYS_DYNAMODB_TABLE" \notin envv
    THEN Outcome(Raise(EnvError("API_KEYS_DYNAMODB_TABLE")), <<>>, <<>>)
    ELSE ApiClaimsBody(tok, table, accepted, envv, clock, cost_table)

(***************************************************************************)
(* get_claims                                                              *)
(***************************************************************************)
\* the value of IDP_PREFIX when it is set
IdpPrefix == <<"I", "D", "P">>

\* the index of the first occurrence of sep in s, 0 when there is none
FirstIndexOf(s, sep) ==
    LET hits == {i \in 1..(Len(s) - Len(sep) + 1) :
                    SubSeq(s, i, i + Len(sep) - 1) = sep}
    IN  IF hits = {} THEN 0 ELSE Min(hits)

\* s.split(sep, 1)[1]: what follows the first occurrence of sep
AfterFirst(s, sep) == SubSeq(s, FirstIndexOf(s, sep) + Len(sep), Len(s))

\* StripIdpPrefix removing the prefix wherever it first occurs
StripIdpPrefixAnywhere(user, idp_prefix) ==
    IF Len(idp_prefix) > 0 /\ FirstIndexOf(user, idp_prefix \o <<"_">>) > 0
    THEN AfterFirst(user, idp_prefix \o <<"_">>)
    ELSE user

\* lines 237-240: the username with the identity-provider prefix removed
StripIdpPrefix(user, idp_prefix) ==
    IF Len(idp_prefix) > 0 /\ StartsWith(user, idp_prefix \o <<"_">>)
    THEN AfterFirst(user, idp_prefix \o <<"_">>)
    ELSE user

\* the JWTs of the model: what python-jose finds in each
JwtAlice == <<"j", "A">>
JwtExpired == <<"j", "E">>
JwtOtherKid == <<"j", "K">>
JwtNoAccount == <<"j", "N">>
JwtPrefixOnly == <<"j", "P">>
JwtPrefixTwice == <<"j", "T">>
JwtPrefixInside == <<"j", "I">>

JwtContent(tok) ==
    CASE tok = JwtAlice ->
            [kid |-> "kid1", verify |-> "ok",
             payload |-> [username |-> <<"i", "d", "p", "_", "a", "l">>]]
      [] tok = JwtNoAccount ->
            [kid |-> "kid1", verify |-> "ok",
             payload |-> [username |-> <<"z", "e", "d">>]]
      [] tok = JwtPrefixOnly ->
            [kid |-> "kid1", verify |-> "ok",
             payload |-> [username |-> <<"i", "d", "p", "_">>]]
      [] tok = JwtPrefixTwice ->
            [kid |-> "kid1", verify |-> "ok",
             payload |-> [username |-> <<"i", "d", "p", "_", "i", "d", "p", "_", "a", "l">>]]
      [] tok = JwtPrefixInside ->
            [kid |-> "kid1", verify |-> "ok",
             payload |-> [username |-> <<"a", "l", "_", "i", "d", "p", "_", "a", "l">>]]
      [] tok = JwtExpired ->
            [kid |-> "kid1", verify |-> "ExpiredSignatureError",
             payload |-> [username |-> Alice]]
      [] tok = JwtOtherKid ->
            [kid |-> "kid9", verify |-> "ok",
             payload |-> [username |-> Alice]]
      [] OTHER ->
            [kid |-> "kid1", verify |-> "JWTError",
             payload |-> [username |-> <<>>]]

\* the key set the issuer publishes
JwksKeys == <<[kid |-> "kid1"]>>

\* the account store (ACCOUNTS_DYNAMO_TABLE): items by user
AccountsTable ==
    Alice :> [accounts |->
                <<[id |-> "acct_other", isDefault |-> FALSE],
                  [id |-> "acct_alice", isDefault |-> TRUE,
                   rateLimit |-> [period |-> "Daily", rate |-> PyNum(1000)]]>>]

\* the loop of lines 252-256 over the account sub-records: the account and
\* rate limit after the records accounts[1..n]
RECURSIVE ScanAccounts(_, _)
ScanAccounts(accounts, n) ==
    IF n = 0 THEN [account |-> None, rate_limit |-> NO_RATE_LIMIT]
    ELSE LET before == ScanAccounts(accounts, n - 1)
             acct == accounts[n]
         IN  IF acct.isDefault
             THEN [account |-> acct.id,
                   rate_limit |-> IF DOMAIN Get(acct, "rateLimit", <<>>) # {}
                                  THEN acct.rateLimit ELSE before.rate_limit]
             ELSE before

\* get_claims when a user without an Item is an error
GetClaimsBodyRequiresItem(tok, envv, jwks_state, accounts_table) ==
    LET idp_prefix == IF "IDP_PREFIX" \in envv THEN Lower(IdpPrefix) ELSE <<>>
        fetch == [store |-> "jwks", key |-> <<>>, by_digest |-> FALSE]
        jwt == JwtContent(tok)
        rsa_keys == SelectSeq(JwksKeys, LAMBDA key : key.kid = jwt.kid)
        user == StripIdpPrefix(jwt.payload.username, idp_prefix)
        get_item == [store |-> "accounts", key |-> user, by_digest |-> FALSE]
        accounts == IF user \in DOMAIN accounts_table
                    THEN Get(accounts_table[user], "accounts", <<>>) ELSE <<>>
        found == ScanAccounts(accounts, Len(accounts))
        account == IF found.account \in {None, ""}
                   THEN "general_account" ELSE found.account
    IN  IF jwks_state = "unreachable"
        THEN Outcome(Raise(BuiltinError("ConnectionError", "")), <<fetch>>, <<>>)
        ELSE IF jwks_state = "not_ok"
        THEN Outcome(Raise(ClaimException("Failed to retrieve JWKS")),
                     <<fetch>>, <<>>)
        ELSE IF jwks_state = "bad_json"
        THEN Outcome(Raise(ClaimException("Invalid JWKS response")),
                     <<fetch>>, <<>>)
        ELSE IF rsa_keys = <<>>
        THEN Outcome(Raise(ClaimException("No valid RSA key found in JWKS")),
                     <<fetch>>, <<>>)
        ELSE IF jwt.verify = "ExpiredSignatureError"
        THEN Outcome(Raise(ClaimException("JWT token has expired")),
                     <<fetch>>, <<>>)
        ELSE IF jwt.verify = "JWTClaimsError"
        THEN Outcome(Raise(ClaimException("Invalid JWT claims")), <<fetch>>, <<>>)
        ELSE IF jwt.verify = "JWTError"
        THEN Outcome(Raise(ClaimException("Invalid JWT token")), <<fetch>>, <<>>)
        ELSE IF user \notin DOMAIN accounts_table
        THEN Outcome(Raise(ClaimException("No item found for user")),
                     <<fetch, get_item>>, <<>>)
        ELSE Outcome(Ret([username |-> PyStr(user),
                          account |-> account,
                          rate_limit |-> found.rate_limit,
                          allowed_access |-> <<FULL_ACCESS>>]),
                     <<fetch, get_item>>, <<>>)

\* lines 154-272
GetClaimsBody(tok, envv, jwks_state, accounts_table) ==
    LET idp_prefix == IF "IDP_PREFIX" \in envv THEN Lower(IdpPrefix) ELSE <<>>
        fetch == [store |-> "jwks", key |-> <<>>, by_digest |-> FALSE]
        jwt == JwtContent(tok)
        rsa_keys == SelectSeq(JwksKeys, LAMBDA key : key.kid = jwt.kid)
        user == StripIdpPrefix(jwt.payload.username, idp_prefix)
        get_item == [store |-> "accounts", key |-> user, by_digest |-> FALSE]
        accounts == IF user \in DOMAIN accounts_table
                    THEN Get(accounts_table[user], "accounts", <<>>) ELSE <<>>
        found == ScanAccounts(accounts, Len(accounts))
        account == IF found.account \in {None, ""}
                   THEN "general_account" ELSE found.account
    IN  IF jwks_state = "unreachable"
        THEN Outcome(Raise(BuiltinError("ConnectionError", "")), <<fetch>>, <<>>)
        ELSE IF jwks_state = "not_ok"
        THEN Outcome(Raise(ClaimException("Failed to retrieve JWKS")),
                     <<fetch>>, <<>>)
        ELSE IF jwks_state = "bad_json"
        THEN Outcome(Raise(ClaimException("Invalid JWKS response")),
                     <<fetch>>, <<>>)
        ELSE IF rsa_keys = <<>>
        THEN Outcome(Raise(ClaimException("No valid RSA key found in JWKS")),
                     <<fetch>>, <<>>)
        ELSE IF jwt.verify = "ExpiredSignatureError"
        THEN Outcome(Raise(ClaimException("JWT token has expired")),
                     <<fetch>>, <<>>)
        ELSE IF jwt.verify = "JWTClaimsError"
        THEN Outcome(Raise(ClaimException("Invalid JWT claims")), <<fetch>>, <<>>)
        ELSE IF jwt.verify = "JWTError"
        THEN Outcome(Raise(ClaimException("Invalid JWT token")), <<fetch>>, <<>>)
        ELSE Outcome(Ret([username |-> PyStr(user),
                          account |-> account,
                          rate_limit |-> found.rate_limit,
                          allowed_access |-> <<FULL_ACCESS>>]),
                     <<fetch, get_item>>, <<>>)

GetClaims(tok, envv, jwks_state, accounts_table) ==
    LET missing == FirstMissing(<<"OAUTH_ISSUER_BASE_URL", "OAUTH_AUDIENCE",
                                  "ACCOUNTS_DYNAMO_TABLE">>, envv)
    IN  IF missing # None
        THEN Outcome(Raise(EnvError(missing)), <<>>, <<>>)
        ELSE GetClaimsBody(tok, envv, jwks_state, accounts_table)

(***************************************************************************)
(* JSON bodies and schemas                                                 *)
(***************************************************************************)
PyDict(d) == [t |-> "dict", v |-> d]
EmptyDict == PyDict(<<>>)

BodyShare == "{\"data\": {\"key\": \"test\", \"value\": 123}}"
BodyNoValue == "{\"data\": {\"key\": \"test\"}}"
BodyNoData == "{\"key\": \"value\"}"
BodyList == "[1]"
BodyForged == "{\"data\": {\"key\": \"test\", \"value\": 123}, \"access_token\": \"x\", \"api_accessed\": false}"
BodyInvalid == "invalid_json"

ShareData == PyDict("key" :> PyStr("test") @@ "value" :> PyNum(123))

\* json.loads on the bodies of the model
JsonLoads(body) ==
    CASE body = BodyShare -> Ret(PyDict("data" :> ShareData))
      [] body = BodyNoValue -> Ret(PyDict("data" :> PyDict("key" :> PyStr("test"))))
      [] body = BodyNoData -> Ret(PyDict("key" :> PyStr("value")))
      [] body = BodyList -> Ret(PyList(<<PyNum(1)>>))
      [] body = BodyForged ->
            Ret(PyDict("data" :> ShareData @@ "access_token" :> PyStr("x")
                       @@ "api_accessed" :> PyNum(0)))
      [] OTHER -> Raise(BuiltinError("JSONDecodeError", "Expecting value"))

\* the schemas of src/tests/test_authz.py
share_schema ==
    [type |-> "object",
     properties |-> ("key" :> [type |-> "string"] @@ "value" :> [type |-> "integer"]),
     required |-> <<"key", "value">>]
share_load_schema ==
    [type |-> "object",
     properties |-> ("id" :> [type |-> "string"]),
     required |-> <<"id">>]
EmptySchema == <<>>

SchemaTypes == {"object", "string", "integer", "array", "number", "boolean", "null"}

\* whether a value has the JSON-Schema type ty
HasType(val, ty) ==
    CASE ty = "object" -> val.t = "dict"
      [] ty = "string" -> val.t = "str"
      [] ty = "integer" -> val.t = "num"
      [] ty = "number" -> val.t = "num"
      [] ty = "array" -> val.t = "list"
      [] ty = "null" -> val.t = "NoneType"
      [] OTHER -> FALSE

ValidationError(message) == [type |-> "ValidationError", message |-> message]
SchemaError(message) == [type |-> "SchemaError", message |-> message]

\* jsonschema.validate for schemas made of type, properties and required:
\* the schema is checked first, then the instance
JsonValidate(instance, schema) ==
    LET props == Get(schema, "properties", <<>>)
        required == Get(schema, "required", <<>>)
        bad_schema ==
            \/ "type" \in DOMAIN schema /\ schema.type \notin SchemaTypes
            \/ \E k \in DOMAIN props :
                  "type" \in DOMAIN props[k] /\ props[k].type \notin SchemaTypes
    IN  IF bad_schema
        THEN Raise(SchemaError("is not valid under any of the given schemas"))
        ELSE IF "type" \in DOMAIN schema /\ ~HasType(instance, schema.type)
        THEN Raise(ValidationError("is not of type '" \o schema.type \o "'"))
        ELSE IF /\ instance.t = "dict"
                /\ \E i \in 1..Len(required) : required[i] \notin DOMAIN instance.v
        THEN Raise(ValidationError("is a required property"))
        ELSE IF /\ instance.t = "dict"
                /\ \E k \in DOMAIN props \cap DOMAIN instance.v :
                      /\ "type" \in DOMAIN props[k]
                      /\ ~HasType(instance.v[k], props[k].type)
        THEN Raise(ValidationError("is not of the type of the property"))
        ELSE Ret(None)

(***************************************************************************)
(* _validate_data                                                          *)
(***************************************************************************)
\* data["data"]
DataMember(d) ==
    IF d.t = "dict"
    THEN IF "data" \in DOMAIN d.v THEN Ret(d.v["data"])
         ELSE Raise(BuiltinError("KeyError", "data"))
    ELSE Raise(BuiltinError("TypeError", "indices must be integers"))

\* _validate_data checking the whole body against the schema
ValidateDataWholeBody(route, operation, d, api, validator_rules) ==
    LET validator == Get(validator_rules,
                         IF api THEN "api_validators" ELSE "validators", <<>>)
        schema == validator[route][operation]
        validate_data == d
        checked == JsonValidate(validate_data, schema)
    IN  IF DOMAIN validator = {}
        THEN Raise(ValidationError("No validator found for the operation"))
        ELSE IF route \in DOMAIN validator /\ operation \in DOMAIN validator[route]
        THEN IF checked.kind = "return" THEN Ret(None)
             ELSE IF checked.exc.type = "ValidationError"
             THEN Raise(ValidationError("Invalid data: " \o checked.exc.message))
             ELSE Raise(ValidationError("Invalid schema: " \o checked.exc.message))
        ELSE Raise(ValidationError("Invalid data or path"))

\* lines 274-325
ValidateData(route, operation, d, api, validator_rules) ==
    LET validator == Get(validator_rules,
                         IF api THEN "api_validators" ELSE "validators", <<>>)
        schema == validator[route][operation]
        member == DataMember(d)
        validate_data == IF DOMAIN schema # {} THEN member.value ELSE d
        checked == JsonValidate(validate_data, schema)
    IN  IF DOMAIN validator = {}
        THEN Raise(ValidationError("No validator found for the operation"))
        ELSE IF route \in DOMAIN validator /\ operation \in DOMAIN validator[route]
        THEN IF DOMAIN schema # {} /\ member.kind = "raise"
             THEN member
             ELSE IF checked.kind = "return" THEN Ret(None)
             ELSE IF checked.exc.type = "ValidationError"
             THEN Raise(ValidationError("Invalid data: " \o checked.exc.message))
             ELSE Raise(ValidationError("Invalid schema: " \o checked.exc.message))
        ELSE Raise(ValidationError("Invalid data or path"))

(***************************************************************************)
(* _parse_and_validate                                                     *)
(***************************************************************************)
\* lines 357-372: the route path of the event
ExtractPath(ev) ==
    IF "path" \in DOMAIN ev THEN ev.path
    ELSE IF "rawPath" \in DOMAIN ev THEN ev.rawPath
    ELSE IF "requestContext" \in DOMAIN ev /\ "http" \in DOMAIN ev.requestContext
    THEN Get(ev.requestContext.http, "path", None)
    ELSE IF "requestContext" \in DOMAIN ev /\ "path" \in DOMAIN ev.requestContext
    THEN ev.requestContext.path
    ELSE None

\* ParseBody with a body that does not parse taken as no body
ParseBodyLenient(ev) ==
    IF Get(ev, "body", None) \in {None, ""}
    THEN Ret(EmptyDict)
    ELSE IF JsonLoads(ev.body).kind = "raise"
    THEN Ret(EmptyDict)
    ELSE JsonLoads(ev.body)

\* lines 380-387: json.loads(event["body"]) if event.get("body") else {}
ParseBody(ev) ==
    IF Get(ev, "body", None) \in {None, ""}
    THEN Ret(EmptyDict)
    ELSE IF JsonLoads(ev.body).kind = "raise"
    THEN Raise(HTTPBadRequest("Unable to parse JSON body."))
    ELSE JsonLoads(ev.body)

\* lines 355-391: the path and the parsed body, or the failure
ExtractPathAndBody(ev) ==
    LET route == ExtractPath(ev)
        body == ParseBody(ev)
    IN  IF body.kind = "raise" THEN body
        ELSE IF route \in {None, ""}
        THEN Raise(HTTPBadRequest("Unable to perform the operation, invalid request."))
        ELSE Ret(<<route, body.value>>)

\* lines 393-400
ValidateSchema(route, operation, d, api, validator_rules) ==
    LET r == ValidateData(route, operation, d, api, validator_rules)
    IN  IF r.kind = "raise" /\ r.exc.type = "ValidationError"
        THEN Raise(HTTPBadRequest(r.exc.message))
        ELSE r

\* A permission checker of the model: build is what the call
\* checker(user, route, op, data) does, decide what the call of its result
\* with (user, data) does
NoChecker == [none |-> TRUE]
Checker(build, decide) == [build |-> build, decide |-> decide]

\* the value or exception of the second call
Decide(checker, user) ==
    CASE checker.decide = "True" -> Ret(TRUE)
      [] checker.decide = "False" -> Ret(FALSE)
      [] checker.decide = "None" -> Ret(FALSE)
      [] checker.decide = "alice_only" -> Ret(user = Alice)
      [] OTHER -> Raise(BuiltinError(checker.decide, "raised by the checker"))

\* CheckPermission denying only when the checker's result is the value False
CheckPermissionIsFalse(checker, user, route, operation, d) ==
    LET decided == Decide(checker, user)
        swallowed(e) == e \in {"NameError", "TypeError"}
    IN  IF "none" \in DOMAIN checker
        THEN [result |-> Ret(<<route, d>>), calls |-> <<>>]
        ELSE IF checker.build = "not_callable"
        THEN [result |-> Ret(<<route, d>>), calls |-> <<"build">>]
        ELSE IF checker.build # "closure"
        THEN [result |-> IF swallowed(checker.build) THEN Ret(<<route, d>>)
                         ELSE Raise(BuiltinError(checker.build,
                                                 "raised by the checker")),
              calls |-> <<"build">>]
        ELSE IF decided.kind = "raise"
        THEN [result |-> IF swallowed(decided.exc.type) THEN Ret(<<route, d>>)
                         ELSE decided,
              calls |-> <<"build", "decide">>]
        ELSE IF ~decided.value /\ checker.decide # "None"
        THEN [result |-> Raise(HTTPUnauthorized(
                  "User does not have permission to perform the operation.")),
              calls |-> <<"build", "decide">>]
        ELSE [result |-> Ret(<<route, d>>), calls |-> <<"build", "decide">>]

\* lines 402-424: the outcome of the permission stage and the steps of the
\* checker that were called
CheckPermission(checker, user, route, operation, d) ==
    LET decided == Decide(checker, user)
        swallowed(e) == e \in {"NameError", "TypeError"}
    IN  IF "none" \in DOMAIN checker
        THEN [result |-> Ret(<<route, d>>), calls |-> <<>>]
        ELSE IF checker.build = "not_callable"
        THEN [result |-> Ret(<<route, d>>), calls |-> <<"build">>]
        ELSE IF checker.build # "closure"
        THEN [result |-> IF swallowed(checker.build) THEN Ret(<<route, d>>)
                         ELSE Raise(BuiltinError(checker.build,
                                                 "raised by the checker")),
              calls |-> <<"build">>]
        ELSE IF decided.kind = "raise"
        THEN [result |-> IF swallowed(decided.exc.type) THEN Ret(<<route, d>>)
                         ELSE decided,
              calls |-> <<"build", "decide">>]
        ELSE IF ~decided.value
        THEN [result |-> Raise(HTTPUnauthorized(
                  "User does not have permission to perform the operation.")),
              calls |-> <<"build", "decide">>]
        ELSE [result |-> Ret(<<route, d>>), calls |-> <<"build", "decide">>]

(***************************************************************************)
(* validated: the wrapper                                                  *)
(***************************************************************************)
\* StageAfter with the permission check left out
StageAfterSkipsPermission(stage, vb) ==
    CASE stage = "token" -> "claims"
      [] stage = "claims" -> "extract"
      [] stage = "extract" -> IF vb THEN "validate" ELSE "handler"
      [] stage = "validate" -> "handler"
      [] stage = "permission" -> "handler"
      [] stage = "handler" -> "done"

\* the stage that follows a stage that completed
StageAfter(stage, vb) ==
    CASE stage = "token" -> "claims"
      [] stage = "claims" -> "extract"
      [] stage = "extract" -> IF vb THEN "validate" ELSE "permission"
      [] stage = "validate" -> "permission"
      [] stage = "permission" -> "handler"
      [] stage = "handler" -> "done"

\* json.dumps({"error": f"Error: {e.status_code} - {e}"})
ErrorBody(e) ==
    "{\"error\": \"Error: " \o ToString(e.status_code) \o " - " \o e.message \o "\"}"

\* Caught with every HTTPException answered as 400
CaughtAlways400(e) ==
    IF IsHTTPException(e)
    THEN [response |-> [statusCode |-> 400, body |-> ErrorBody(e)],
          raised |-> NoValue]
    ELSE [response |-> NoValue, raised |-> e]

\* Caught with every exception turned into a response
CaughtSwallowsAll(e) ==
    [response |-> [statusCode |-> IF IsHTTPException(e) THEN e.status_code ELSE 500,
                   body |-> "{\"error\": \"" \o e.message \o "\"}"],
     raised |-> NoValue]

\* lines 741-752: what the wrapper does with an exception
Caught(e) ==
    IF IsHTTPException(e)
    THEN [response |-> [statusCode |-> e.status_code, body |-> ErrorBody(e)],
          raised |-> NoValue]
    ELSE [response |-> NoValue, raised |-> e]

\* Enriched with every request marked as of JWT origin
EnrichedAsJwt(d, tok, api, cl) ==
    LET added == [access_token |-> tok,
                  account |-> cl.account,
                  api_key_id |-> IF "api_key_id" \in DOMAIN cl
                                 THEN PyStr(cl.api_key_id) ELSE PyNone,
                  rate_limit |-> cl.rate_limit,
                  api_accessed |-> FALSE,
                  allowed_access |-> cl.allowed_access,
                  purpose |-> Get(cl, "purpose", None)]
    IN  IF d.t # "dict"
        THEN Raise(BuiltinError("TypeError", "indices must be integers"))
        ELSE Ret(PyDict([k \in DOMAIN d.v \cup DOMAIN added |->
                            IF k \in DOMAIN added THEN added[k] ELSE d.v[k]]))

\* lines 723-731: the data handed to the handler
Enriched(d, tok, api, cl) ==
    LET added == [access_token |-> tok,
                  account |-> cl.account,
                  api_key_id |-> IF "api_key_id" \in DOMAIN cl
                                 THEN PyStr(cl.api_key_id) ELSE PyNone,
                  rate_limit |-> cl.rate_limit,
                  api_accessed |-> api,
                  allowed_access |-> cl.allowed_access,
                  purpose |-> Get(cl, "purpose", None)]
    IN  IF d.t # "dict"
        THEN Raise(BuiltinError("TypeError", "indices must be integers"))
        ELSE Ret(PyDict([k \in DOMAIN d.v \cup DOMAIN added |->
                            IF k \in DOMAIN added THEN added[k] ELSE d.v[k]]))

\* json.dumps(result, cls=CustomPydanticJSONEncoder) on the results of the
\* model's handlers
JsonDumps(result) ==
    CASE result = "ok_dict" -> Ret("{\"ok\": true}")
      [] result = "empty_list" -> Ret("[]")
      [] OTHER -> Raise(BuiltinError("TypeError", "is not JSON serializable"))

\* what a call of the wrapped handler f may do
HandlerBehaviours ==
    {Ret("ok_dict"), Ret("file_object"),
     Raise(HTTPBadRequest("bad input")),
     Raise(HTTPNotFound("Not Found")),
     Raise(HTTPException(500, "failed")),
     Raise(BuiltinError("ValueError", "Unexpected error occurred"))}

(***************************************************************************)
(* The requests and configurations of the model                            *)
(***************************************************************************)
TokLegacy == <<"a", "m", "p", "-", "L">>
TokFull == <<"a", "m", "p", "-", "v", "1", "-", "F">>
TokChat == <<"a", "m", "p", "-", "v", "1", "-", "C">>
TokOver == <<"a", "m", "p", "-", "v", "1", "-", "O">>
TokInactive == <<"a", "m", "p", "-", "v", "1", "-", "I">>
TokExpired == <<"a", "m", "p", "-", "v", "1", "-", "E">>
TokNoKind == <<"a", "m", "p", "-", "v", "1", "-", "X">>
TokUnknown == <<"a", "m", "p", "-", "v", "1", "-", "U">>

IdFull == <<"a", "l", "/", "o", "w", "n", "e", "r", "K", "e", "y", "/", "1">>
IdChat == <<"c", "a", "/", "o", "w", "n", "e", "r", "K", "e", "y", "/", "2">>
IdOver == <<"a", "l", "/", "d", "e", "l", "e", "g", "a", "t", "e", "K", "e", "y", "/", "3">>
IdInactive == <<"a", "l", "/", "o", "w", "n", "e", "r", "K", "e", "y", "/", "4">>
IdExpired == <<"a", "l", "/", "o", "w", "n", "e", "r", "K", "e", "y", "/", "5">>
IdNoKind == <<"a", "l", "/", "g", "r", "o", "u", "p", "K", "e", "y", "/", "6">>
IdLegacy == <<"s", "y", "/", "s", "y", "s", "t", "e", "m", "K", "e", "y", "/", "7">>

Today == 10
HourlyFive == [period |-> "Hourly", rate |-> PyNum(500)]

\* the API-key registry before any request
InitialApiKeys ==
       IdFull :> [api_owner_id |-> IdFull, apiKey |-> KeyGenerator(TokFull),
                  active |-> TRUE, accessTypes |-> <<"full_access">>,
                  owner |-> PyStr(Alice), account |-> [id |-> "acct_alice"],
                  rateLimit |-> HourlyFive]
    @@ IdChat :> [api_owner_id |-> IdChat, apiKey |-> KeyGenerator(TokChat),
                  active |-> TRUE, accessTypes |-> <<"chat">>,
                  owner |-> PyStr(Carol), account |-> [id |-> "acct_carol"],
                  rateLimit |-> HourlyFive]
    @@ IdOver :> [api_owner_id |-> IdOver, apiKey |-> KeyGenerator(TokOver),
                  active |-> TRUE, accessTypes |-> <<"chat", "full_access">>,
                  delegate |-> PyStr(Bob), owner |-> PyStr(Alice),
                  account |-> [id |-> "acct_alice"], rateLimit |-> HourlyFive]
    @@ IdInactive :> [api_owner_id |-> IdInactive,
                      apiKey |-> KeyGenerator(TokInactive),
                      active |-> FALSE, accessTypes |-> <<"full_access">>,
                      owner |-> PyStr(Alice), account |-> [id |-> "acct_alice"]]
    @@ IdExpired :> [api_owner_id |-> IdExpired,
                     apiKey |-> KeyGenerator(TokExpired),
                     active |-> TRUE, expirationDate |-> Today,
                     accessTypes |-> <<"full_access">>,
                     owner |-> PyStr(Alice), account |-> [id |-> "acct_alice"]]
    @@ IdNoKind :> [api_owner_id |-> IdNoKind, apiKey |-> KeyGenerator(TokNoKind),
                    active |-> TRUE, accessTypes |-> <<"full_access">>,
                    owner |-> PyStr(Alice), account |-> [id |-> "acct_alice"]]
    @@ IdLegacy :> [api_owner_id |-> IdLegacy, apiKey |-> TokLegacy,
                    active |-> TRUE, expirationDate |-> Today + 1,
                    accessTypes |-> <<"full_access">>,
                    systemId |-> PyStr(<<"s", "y", "s">>),
                    account |-> [id |-> "acct_sys"], purpose |-> "group"]

AuthorizationHeader == <<"A", "u", "t", "h", "o", "r", "i", "z", "a", "t", "i", "o", "n">>
BearerValue(tok) == <<"B", "e", "a", "r", "e", "r", " ">> \o tok
BasicValue(tok) == <<"B", "a", "s", "i", "c", " ">> \o tok

JwtTokens == {JwtAlice, JwtNoAccount, JwtExpired, JwtOtherKid, <<"j", "X">>}
ApiTokens == {TokLegacy, TokFull, TokChat, TokOver, TokInactive, TokExpired,
              TokNoKind, TokUnknown}

HeadersWith(tok) == <<<<AuthorizationHeader, BearerValue(tok)>>>>

RouteShare == "/state/share"

\* the places of an event that may hold the route path
PathShapes ==
    {[path |-> RouteShare],
     [rawPath |-> RouteShare],
     [requestContext |-> [http |-> [path |-> RouteShare]]],
     [requestContext |-> [path |-> RouteShare]],
     [path |-> None, rawPath |-> RouteShare],
     [path |-> "/state/share/load"],
     [k \in {} |-> None]}

\* Missing stands for an event without a body
Missing == "<Missing>"
Bodies == {Missing, "", BodyShare, BodyNoValue, BodyNoData, BodyList, BodyForged,
           BodyInvalid}

MakeEvent(headers, shape, body) ==
    LET base == ("headers" :> headers) @@ shape
    IN  IF body = Missing THEN base ELSE base @@ ("body" :> body)

JwksStates == {"ok", "not_ok", "bad_json", "unreachable"}

\* the requests of the model: every token with a well-formed event, every
\* key-set behaviour with a valid JWT, and every event shape and every body
\* with one token of each origin
Requests ==
    {[event |-> MakeEvent(HeadersWith(tok), [path |-> RouteShare], b),
      jwks |-> "ok"] : tok \in JwtTokens \cup ApiTokens, b \in {BodyShare, BodyInvalid}}
    \cup {[event |-> MakeEvent(h, [path |-> RouteShare], BodyShare), jwks |-> "ok"] :
            h \in {<<>>, <<<<AuthorizationHeader, BasicValue(JwtAlice)>>>>,
                   <<<<AuthorizationHeader, <<"B", "e", "a", "r", "e", "r">> >>>>}}
    \cup {[event |-> MakeEvent(HeadersWith(JwtAlice), [path |-> RouteShare], BodyShare),
           jwks |-> j] : j \in JwksStates}
    \cup {[event |-> MakeEvent(HeadersWith(tok), shape, b), jwks |-> "ok"] :
            tok \in {JwtAlice, TokFull}, shape \in PathShapes,
            b \in {BodyShare, BodyInvalid}}
    \cup {[event |-> MakeEvent(HeadersWith(tok), [path |-> RouteShare], b),
           jwks |-> "ok"] : tok \in {JwtAlice, TokFull}, b \in Bodies}

Ops == {"append", "read", "load"}

rules ==
    [validators |-> (RouteShare :> [append |-> share_schema, read |-> EmptySchema]
                     @@ "/state/share/load" :> [load |-> share_load_schema])]
rules_with_api ==
    [validators |-> rules.validators,
     api_validators |-> (RouteShare :> [append |-> share_schema])]

\* the arguments of setup_validated in the model
RuleTables == {[k \in {} |-> EmptySchema], rules, rules_with_api}
Checkers ==
    {NoChecker}
    \cup {Checker("closure", d) :
            d \in {"True", "False", "None", "alice_only", "NameError",
                   "TypeError", "ValueError"}}
    \cup {Checker(b, "True") : b \in {"not_callable", "NameError", "TypeError",
                                      "ValueError"}}
\* every checker with the rules of both origins, and every rule table with no
\* checker and with a checker that grants
SetupArguments ==
    {<<rules_with_api, c>> : c \in Checkers}
    \cup {<<r, c>> : r \in RuleTables, c \in {NoChecker, Checker("closure", "True")}}
AccessTypeLists == {<<"chat">>}

(***************************************************************************)
(* State machine                                                           *)
(***************************************************************************)
NoRequest == [k \in {} |-> None]

Init ==
    /\ access_types = <<FULL_ACCESS>>
    /\ validate_rules = NoValue
    /\ permission_checker = NoChecker
    /\ now \in {[day |-> Today, hour |-> h] : h \in Hours}
    /\ api_keys_table = InitialApiKeys
    /\ env = AllEnv \cup {"IDP_PREFIX"}
    /\ event = NoRequest
    /\ op = None
    /\ validate_body = FALSE
    /\ jwks = "ok"
    /\ pc = "idle"
    /\ token = <<>>
    /\ api_accessed = FALSE
    /\ claims = NoValue
    /\ name = None
    /\ data = NoValue
    /\ response = NoValue
    /\ raised = NoValue
    /\ exc = NoValue
    /\ stages = <<>>
    /\ handler_calls = <<>>
    /\ checker_calls = <<>>
    /\ lookups = <<>>
    /\ writes = <<>>
    /\ nreq = 0
    /\ fn_args = NoValue
    /\ fn_result = NoValue
    /\ threads = <<>>

config == <<access_types, validate_rules, permission_checker>>
world == <<now, env>>
request == <<event, op, validate_body, jwks>>
locals == <<token, api_accessed, claims, name, data>>
calls == <<handler_calls, checker_calls, lookups, writes>>
direct == <<fn_args, fn_result, threads>>

\* setup_validated(validate_rules, permission_checker)
SetupValidated ==
    /\ pc = "idle"
    /\ \E a \in SetupArguments :
          /\ validate_rules' = a[1]
          /\ permission_checker' = a[2]
    /\ UNCHANGED <<access_types, api_keys_table, world, direct, request, pc, locals,
                   response, raised, exc, stages, calls, nreq>>

\* AddApiAccessTypes replacing the accepted types by its argument
AddApiAccessTypesReplaces ==
    /\ pc = "idle"
    /\ Len(access_types) <= MaxAccessAdds
    /\ \E types \in AccessTypeLists : access_types' = types
    /\ UNCHANGED <<validate_rules, permission_checker, api_keys_table,
                   world, direct, request, pc, locals, response, raised, exc, stages,
                   calls, nreq>>

\* add_api_access_types(access_types)
AddApiAccessTypes ==
    /\ pc = "idle"
    /\ Len(access_types) <= MaxAccessAdds
    /\ \E types \in AccessTypeLists : access_types' = access_types \o types
    /\ UNCHANGED <<validate_rules, permission_checker, api_keys_table,
                   world, direct, request, pc, locals, response, raised, exc, stages,
                   calls, nreq>>

\* a call of the wrapper: wrapper(event, context) of validated(op, validate_body)
NewRequest ==
    /\ pc = "idle"
    /\ nreq < MaxRequests
    /\ \E r \in Requests, o \in Ops, vb \in BOOLEAN :
          /\ event' = r.event
          /\ jwks' = r.jwks
          /\ op' = o
          /\ validate_body' = vb
    /\ pc' = "token"
    /\ nreq' = nreq + 1
    /\ UNCHANGED <<config, api_keys_table, world, direct, locals, response, raised,
                   exc, stages, calls>>

\* the wrapper after a stage that completed
Proceed(stage) ==
    /\ stages' = Append(stages, [stage |-> stage, ok |-> TRUE])
    /\ pc' = StageAfter(stage, validate_body)
    /\ UNCHANGED <<response, raised, exc>>

\* the wrapper after a stage that raised e
Fail(stage, e) ==
    /\ stages' = Append(stages, [stage |-> stage, ok |-> FALSE])
    /\ pc' = "done"
    /\ exc' = e
    /\ response' = Caught(e).response
    /\ raised' = Caught(e).raised

\* ExtractToken taking only the versioned keys as API keys
ExtractTokenVersionedOnly ==
    /\ pc = "token"
    /\ LET r == ParseToken(event)
       IN  IF r.kind = "return"
           THEN /\ token' = r.value
                /\ api_accessed' = (Prefix(r.value, 7) = AmpV1Prefix)
                /\ Proceed("token")
           ELSE /\ Fail("token", r.exc)
                /\ UNCHANGED <<token, api_accessed>>
    /\ UNCHANGED <<config, api_keys_table, world, direct, request, claims, name, data,
                   calls, nreq>>

\* line 691-692
ExtractToken ==
    /\ pc = "token"
    /\ LET r == ParseToken(event)
       IN  IF r.kind = "return"
           THEN /\ token' = r.value
                /\ api_accessed' = (Prefix(r.value, 4) = AmpPrefix)
                /\ Proceed("token")
           ELSE /\ Fail("token", r.exc)
                /\ UNCHANGED <<token, api_accessed>>
    /\ UNCHANGED <<config, api_keys_table, world, direct, request, claims, name, data,
                   calls, nreq>>

\* lines 694-703
ResolveClaims ==
    /\ pc = "claims"
    /\ LET out == IF api_accessed
                  THEN ApiClaims(token, api_keys_table, access_types, env, now,
                                 CostCalcTable)
                  ELSE GetClaims(token, env, jwks, AccountsTable)
           r == out.result
       IN  /\ lookups' = lookups \o out.lookups
           /\ writes' = writes \o out.writes
           /\ api_keys_table' =
                 IF out.writes = <<>> THEN api_keys_table
                 ELSE TouchLastAccessed(api_keys_table, out.writes[1].key, now)
           /\ IF r.kind = "raise"
              THEN Fail("claims", r.exc) /\ UNCHANGED claims
              ELSE IF r.value.username.t = "NoneType"
              THEN /\ claims' = r.value
                   /\ Fail("claims", HTTPUnauthorized("User not found."))
              ELSE /\ claims' = r.value
                   /\ Proceed("claims")
    /\ UNCHANGED <<config, world, direct, request, token, api_accessed, name, data,
                   handler_calls, checker_calls, nreq>>

\* _parse_and_validate, lines 355-391
ExtractPathAndBodyStage ==
    /\ pc = "extract"
    /\ LET r == ExtractPathAndBody(event)
       IN  IF r.kind = "return"
           THEN /\ name' = r.value[1]
                /\ data' = r.value[2]
                /\ Proceed("extract")
           ELSE /\ Fail("extract", r.exc)
                /\ UNCHANGED <<name, data>>
    /\ UNCHANGED <<config, api_keys_table, world, direct, request, token, api_accessed,
                   claims, calls, nreq>>

\* _validate_rules or {}
RulesOrEmpty(r) == IF "none" \in DOMAIN r THEN [k \in {} |-> EmptySchema] ELSE r

\* _parse_and_validate, lines 393-400
ValidateSchemaStage ==
    /\ pc = "validate"
    /\ LET r == ValidateSchema(name, op, data, api_accessed,
                               RulesOrEmpty(validate_rules))
       IN  IF r.kind = "return" THEN Proceed("validate")
           ELSE Fail("validate", r.exc)
    /\ UNCHANGED <<config, api_keys_table, world, direct, request, locals, calls, nreq>>

\* _parse_and_validate, lines 402-424
CheckPermissionStage ==
    /\ pc = "permission"
    /\ LET out == CheckPermission(permission_checker, claims.username.v, name,
                                  op, data)
       IN  /\ checker_calls' = checker_calls \o out.calls
           /\ IF out.result.kind = "return"
              THEN /\ name' = out.result.value[1]
                   /\ data' = out.result.value[2]
                   /\ Proceed("permission")
              ELSE /\ Fail("permission", out.result.exc)
                   /\ UNCHANGED <<name, data>>
    /\ UNCHANGED <<config, api_keys_table, world, direct, request, token, api_accessed,
                   claims, handler_calls, lookups, writes, nreq>>

\* lines 723-740: the handler is called and its result wrapped
InvokeHandler ==
    /\ pc = "handler"
    /\ LET enriched == Enriched(data, token, api_accessed, claims)
       IN  IF enriched.kind = "raise"
           THEN /\ Fail("handler", enriched.exc)
                /\ UNCHANGED <<data, handler_calls>>
           ELSE /\ data' = enriched.value
                /\ \E f \in HandlerBehaviours :
                      /\ handler_calls' =
                            Append(handler_calls,
                                   [user |-> claims.username.v, name |-> name,
                                    data |-> enriched.value, outcome |-> f])
                      /\ IF f.kind = "raise" THEN Fail("handler", f.exc)
                         ELSE IF JsonDumps(f.value).kind = "raise"
                         THEN Fail("handler", JsonDumps(f.value).exc)
                         ELSE /\ stages' = Append(stages, [stage |-> "handler",
                                                          ok |-> TRUE])
                              /\ pc' = StageAfter("handler", validate_body)
                              /\ response' = [statusCode |-> 200,
                                              body |-> JsonDumps(f.value).value]
                              /\ UNCHANGED <<raised, exc>>
    /\ UNCHANGED <<config, api_keys_table, world, direct, request, token, api_accessed,
                   claims, name, checker_calls, lookups, writes, nreq>>

\* the wrapper has returned or raised; its locals are gone
Return ==
    /\ pc = "done"
    /\ pc' = "idle"
    /\ event' = NoRequest
    /\ op' = None
    /\ validate_body' = FALSE
    /\ jwks' = "ok"
    /\ token' = <<>>
    /\ api_accessed' = FALSE
    /\ claims' = NoValue
    /\ name' = None
    /\ data' = NoValue
    /\ response' = NoValue
    /\ raised' = NoValue
    /\ exc' = NoValue
    /\ stages' = <<>>
    /\ handler_calls' = <<>>
    /\ checker_calls' = <<>>
    /\ lookups' = <<>>
    /\ writes' = <<>>
    /\ UNCHANGED <<config, api_keys_table, world, direct, nreq>>

Next ==
    \/ SetupValidated
    \/ AddApiAccessTypes
    \/ NewRequest
    \/ ExtractToken
    \/ ResolveClaims
    \/ ExtractPathAndBodyStage
    \/ ValidateSchemaStage
    \/ CheckPermissionStage
    \/ InvokeHandler
    \/ Return

Spec == Init /\ [][Next]_vars

TypeOK ==
    /\ pc \in {"idle", "token", "claims", "extract", "validate", "permission",
               "handler", "done"}
    /\ nreq \in 0..(MaxRequests + 1)

(***************************************************************************)
(* Properties                                                              *)
(***************************************************************************)
Done == pc = "done"
Responded == "statusCode" \in DOMAIN response
Propagated == "type" \in DOMAIN raised
Failed == "type" \in DOMAIN exc
HandlerInvoked == handler_calls # <<>>
StageNames == [i \in 1..Len(stages) |-> stages[i].stage]
StageOk(stage) == \E i \in 1..Len(stages) : stages[i].stage = stage /\ stages[i].ok

\* the stages of the happy path, in order
HappyPath(vb) ==
    IF vb THEN <<"token", "claims", "extract", "validate", "permission", "handler">>
    ELSE <<"token", "claims", "extract", "permission", "handler">>

\* C1: the stages run are an initial part of token, claims, path and body,
\* schema (when validate_body), permission, handler; only the last stage run
\* can have failed, and a failure ends the request; the handler is called at
\* most once, only after all earlier stages completed, with a non-null user
C1_LinearPipeline ==
    LET path == HappyPath(validate_body)
    IN  /\ Len(stages) <= Len(path)
        /\ StageNames = SubSeq(path, 1, Len(stages))
        /\ \A i \in 1..(Len(stages) - 1) : stages[i].ok
        /\ (stages # <<>> /\ ~stages[Len(stages)].ok) => Done
        /\ Len(handler_calls) <= 1
        /\ HandlerInvoked =>
              /\ Len(stages) = Len(path)
              /\ claims.username.t = "str"
              /\ validate_body =>
                    ValidateData(name, op, ParseBody(event).value, api_accessed,
                                 RulesOrEmpty(validate_rules)).kind = "return"
              /\ "none" \notin DOMAIN permission_checker => checker_calls # <<>>
        /\ Failed => Done /\ ~StageOk("handler")

C1_Witness ==
    /\ Done
    /\ validate_body
    /\ Len(handler_calls) = 1
    /\ checker_calls = <<"build", "decide">>
    /\ Responded /\ response.statusCode = 200

C3_UntypedPropagates ==
    (/\ Done
     /\ HandlerInvoked
     /\ handler_calls[1].outcome.kind = "raise"
     /\ handler_calls[1].outcome.exc.type
           \notin {"HTTPException", "HTTPBadRequest", "HTTPUnauthorized",
                   "HTTPNotFound"})
    => /\ ~Responded
       /\ raised = handler_calls[1].outcome.exc

C3_Witness ==
    /\ Done
    /\ HandlerInvoked
    /\ handler_calls[1].outcome.kind = "raise"
    /\ handler_calls[1].outcome.exc.type = "ValueError"
    /\ Propagated /\ raised.type = "ValueError"
    /\ ~Responded

\* the registry records that a token indexes: by its digest for a versioned
\* token, by its raw value for a legacy one
RecordsOf(tok) ==
    {id \in DOMAIN api_keys_table :
        api_keys_table[id].apiKey =
            IF StartsWith(tok, AmpV1Prefix) THEN KeyGenerator(tok) ELSE tok}

\* the record is active, unexpired, has an Hourly rate of 5.00 and its user
\* has spent the given amount in the current hour
HourlyFiveRecord(id, spent) ==
    LET item == api_keys_table[id]
        who == DetermineApiUser(item)
    IN  /\ Get(item, "active", FALSE)
        /\ "expirationDate" \in DOMAIN item => item.expirationDate > now.day
        /\ "rateLimit" \in DOMAIN item
        /\ item.rateLimit = [period |-> "Hourly", rate |-> PyNum(500)]
        /\ who.kind = "return"
        /\ who.value \in DOMAIN CostCalcTable.items
        /\ CostCalcTable.items[who.value].hourlyCost.v[now.hour + 1] = PyNum(spent)

Accepted(type) == \E i \in 1..Len(access_types) : access_types[i] = type
HasAccessType(id, type) ==
    \E j \in 1..Len(api_keys_table[id].accessTypes) :
        api_keys_table[id].accessTypes[j] = type

\* C4 (as claimed): when API-key resolution fails with LookupError,
\* PermissionError or UnknownApiUserException, the wrapper returns a 401
\* response and does not invoke the handler
C4_KeyFailuresAre401 ==
    (/\ Done
     /\ api_accessed
     /\ Failed
     /\ StageNames = <<"token", "claims">>
     /\ exc.type \in {"LookupError", "PermissionError", "UnknownApiUserException"})
    => /\ Responded
       /\ response.statusCode = 401
       /\ ~HandlerInvoked

\* C5 (as claimed): a JWT whose verification fails as expired gets a 401
\* response whose error says "JWT token has expired", and the handler is not
\* invoked
C5_ExpiredJwtIs401 ==
    (/\ Done
     /\ StageNames = <<"token", "claims">>
     /\ ~StartsWith(token, AmpPrefix)
     /\ jwks = "ok"
     /\ JwtContent(token).kid = "kid1"
     /\ JwtContent(token).verify = "ExpiredSignatureError")
    => /\ Responded
       /\ response.statusCode = 401
       /\ response.body = "{\"error\": \"Error: 401 - JWT token has expired\"}"
       /\ ~HandlerInvoked

\* C6: an API key with an active, unexpired record of an accepted access type
\* and an Hourly rate of 5.00, 6.00 being spent in the current hour, gets a
\* 401 response that says "rate limit exceeded ($5.00/Hourly)"; the handler
\* is never invoked and the last-accessed timestamp of the record is not
\* written
C6_OverQuotaIs401 ==
    \A id \in RecordsOf(token) :
        (/\ pc \notin {"idle", "token"}
         /\ api_accessed
         /\ HourlyFiveRecord(id, 600)
         /\ \E t \in {"full_access", "chat"} : HasAccessType(id, t) /\ Accepted(t))
        => /\ ~HandlerInvoked
           /\ writes = <<>>
           /\ "lastAccessed" \notin DOMAIN api_keys_table[id]
           /\ Done =>
                 /\ Responded
                 /\ response.statusCode = 401
                 /\ response.body =
                       "{\"error\": \"Error: 401 - rate limit exceeded ($5.00/Hourly)\"}"

C6_Witness ==
    /\ Done
    /\ token = TokOver
    /\ HourlyFiveRecord(IdOver, 600)
    /\ lookups # <<>> /\ lookups[Len(lookups)].store = "usage"
    /\ Responded /\ response.statusCode = 401
    /\ writes = <<>>

\* the record of scenario A: access type chat only, Hourly 5.00, 2.00 spent
ChatRecord(id) ==
    /\ HourlyFiveRecord(id, 200)
    /\ api_keys_table[id].accessTypes = <<"chat">>

\* the stages after claims resolution would all complete
RestCompletes ==
    LET extracted == ExtractPathAndBody(event)
        route == extracted.value[1]
        d == extracted.value[2]
    IN  /\ extracted.kind = "return"
        /\ validate_body =>
              ValidateSchema(route, op, d, TRUE, RulesOrEmpty(validate_rules)).kind
                 = "return"
        /\ CheckPermission(permission_checker, claims.username.v, route, op,
                           d).result.kind = "return"
        /\ d.t = "dict"

C8_InvalidJsonIs400 ==
    (/\ validate_body
     /\ Get(event, "body", None) \notin {None, ""}
     /\ JsonLoads(event.body).kind = "raise")
    => /\ checker_calls = <<>>
       /\ ~HandlerInvoked
       /\ (Done /\ StageOk("claims")) =>
             /\ Responded
             /\ response.statusCode = 400
             /\ response.body = "{\"error\": \"Error: 400 - Unable to parse JSON body.\"}"

C8_Witness ==
    /\ Done
    /\ validate_body
    /\ event.body = BodyInvalid
    /\ StageOk("claims")
    /\ "none" \notin DOMAIN permission_checker
    /\ Responded /\ response.statusCode = 400

\* C9: the permission stage fails, with HTTPUnauthorized (401), exactly when
\* a checker is configured and both of its calls complete and the second
\* returns a false value; with no checker, or a NameError or TypeError in
\* either call, the stage completes and returns the route and the data
C9_PermissionStage ==
    \A i \in 1..Len(stages) :
        stages[i].stage = "permission" =>
            LET c == permission_checker
                configured == "none" \notin DOMAIN c
                false_value ==
                    /\ configured
                    /\ c.build = "closure"
                    /\ \/ c.decide \in {"False", "None"}
                       \/ c.decide = "alice_only" /\ claims.username.v # Alice
                swallowed ==
                    /\ configured
                    /\ \/ c.build \in {"NameError", "TypeError", "not_callable"}
                       \/ c.build = "closure" /\ c.decide \in {"NameError", "TypeError"}
                denied ==
                    /\ ~stages[i].ok
                    /\ exc = HTTPUnauthorized(
                          "User does not have permission to perform the operation.")
                    /\ Responded /\ response.statusCode = 401
            IN  /\ denied <=> false_value
                /\ (~stages[i].ok /\ exc.type = "HTTPUnauthorized") <=> false_value
                /\ (~configured \/ swallowed) =>
                      /\ stages[i].ok
                      /\ pc = "handler" =>
                            /\ name = ExtractPath(event)
                            /\ data = ParseBody(event).value

C9_Witness ==
    /\ Done
    /\ permission_checker = Checker("closure", "None")
    /\ checker_calls = <<"build", "decide">>
    /\ stages[Len(stages)] = [stage |-> "permission", ok |-> FALSE]
    /\ Responded /\ response.statusCode = 401

(***************************************************************************)
(* _parse_token on its own: the wrapper called with an event whose         *)
(* headers hold at most one header, its value made of up to MaxPieces      *)
(* pieces (schemes, white space, token characters)                         *)
(***************************************************************************)
Pieces ==
    {<<"B", "e", "a", "r", "e", "r">>, <<"b", "E", "A", "R", "E", "R">>,
     <<"B", "a", "s", "i", "c">>, <<" ">>, <<"\t">>, <<"t">>, <<"x">>}

RECURSIVE Concat(_)
Concat(ps) == IF ps = <<>> THEN <<>> ELSE Head(ps) \o Concat(Tail(ps))

HeaderValues == {Concat(ps) : ps \in UNION {[1..k -> Pieces] : k \in 0..MaxPieces}}

HeaderNames ==
    {AuthorizationHeader, Authorization,
     <<"A", "U", "T", "H", "O", "R", "I", "Z", "A", "T", "I", "O", "N">>,
     <<"x", "-", "a", "u", "t", "h">>}

TokenEvents ==
    {[headers |-> <<>>, path |-> RouteShare]}
    \cup {[headers |-> <<<<n, v>>>>, path |-> RouteShare] :
             n \in HeaderNames, v \in HeaderValues}

InitToken ==
    /\ access_types = <<FULL_ACCESS>>
    /\ validate_rules = NoValue
    /\ permission_checker = NoChecker
    /\ now = [day |-> Today, hour |-> 13]
    /\ api_keys_table = InitialApiKeys
    /\ env = AllEnv \cup {"IDP_PREFIX"}
    /\ event \in TokenEvents
    /\ op = "read"
    /\ validate_body = FALSE
    /\ jwks = "ok"
    /\ pc = "token"
    /\ token = <<>>
    /\ api_accessed = FALSE
    /\ claims = NoValue
    /\ name = None
    /\ data = NoValue
    /\ response = NoValue
    /\ raised = NoValue
    /\ exc = NoValue
    /\ stages = <<>>
    /\ handler_calls = <<>>
    /\ checker_calls = <<>>
    /\ lookups = <<>>
    /\ writes = <<>>
    /\ nreq = 1
    /\ fn_args = NoValue
    /\ fn_result = NoValue
    /\ threads = <<>>

NextToken == ExtractToken

SpecToken == InitToken /\ [][NextToken]_vars

\* the maximal runs of characters of v that are not white space, each as the
\* pair of its first and last index
Runs(v) ==
    {r \in (1..Len(v)) \X (1..Len(v)) :
        /\ r[1] <= r[2]
        /\ \A k \in r[1]..r[2] : ~IsSpace(v[k])
        /\ r[1] = 1 \/ IsSpace(v[r[1] - 1])
        /\ r[2] = Len(v) \/ IsSpace(v[r[2] + 1])}

\* v is a bearer scheme followed by one token, and nothing else
BearerAndToken(v) ==
    /\ Cardinality(Runs(v)) = 2
    /\ \E r \in Runs(v) :
          /\ \A q \in Runs(v) : r[1] <= q[1]
          /\ Lower(SubSeq(v, r[1], r[2])) = Bearer

SecondRun(v) ==
    LET r == CHOOSE q \in Runs(v) : \A o \in Runs(v) : o[1] <= q[1]
    IN  SubSeq(v, r[1], r[2])

WrapperIdle ==
    /\ access_types = <<FULL_ACCESS>>
    /\ validate_rules = NoValue
    /\ permission_checker = NoChecker
    /\ api_keys_table = InitialApiKeys
    /\ event = NoRequest
    /\ op = None
    /\ validate_body = FALSE
    /\ jwks = "ok"
    /\ pc = "idle"
    /\ token = <<>>
    /\ api_accessed = FALSE
    /\ claims = NoValue
    /\ name = None
    /\ data = NoValue
    /\ response = NoValue
    /\ raised = NoValue
    /\ exc = NoValue
    /\ stages = <<>>
    /\ handler_calls = <<>>
    /\ checker_calls = <<>>
    /\ lookups = <<>>
    /\ writes = <<>>
    /\ nreq = 0

wrapper_state == <<pc, locals, response, raised, exc, stages, calls, nreq>>

Called(fn) == fn_args.fn = fn /\ "none" \notin DOMAIN fn_result

\* a member that a dict does not have
Absent == [t |-> "absent"]
Field(k, v) == IF v = Absent THEN [x \in {} |-> Absent] ELSE (k :> v)

(***************************************************************************)
(* is_rate_limited on its own                                              *)
(***************************************************************************)
CostVar == "COST_CALCULATIONS_DYNAMO_TABLE"
\* a value that float() and >= reject (a dict, say)
NotANumber == [t |-> "dict"]

\* rate_limit: period and rate, each of them possibly missing
RatePeriods == {None, UNLIMITED, "Hourly", "Daily", "Monthly"}
RateChoice(i) ==
    CASE i = 1 -> Absent
      [] i = 2 -> PyNone
      [] i = 3 -> PyNum(500)
      [] i = 4 -> NotANumber
RateLimitConfig(p, i) ==
    (IF p = None THEN [x \in {} |-> Absent] ELSE ("period" :> p))
        @@ Field("rate", RateChoice(i))

HourlyAll(v) == [h \in 1..HoursPerDay |-> v]
Amount(i) == PyNum(498 + i)

\* an hourlyCost column: missing, not a list, a list of amounts, a list cut
\* short, a list of values that are no numbers
HourlyColumn(i) ==
    CASE i \in 1..3 -> PyList(HourlyAll(Amount(i)))
      [] i = 4 -> Absent
      [] i = 5 -> PyNum(600)
      [] i = 6 -> PyList(HourlyAll(PyNone))
      [] i = 7 -> PyList(HourlyAll(NotANumber))
      [] i = 8 -> PyList(SubSeq(HourlyAll(PyNum(600)), 1, ShortDay))
DailyColumn(i) ==
    CASE i \in 1..3 -> Amount(i)
      [] i = 4 -> Absent
      [] i = 5 -> NotANumber

\* the usage record of a user; the monthlyCost column is never there
UsageRecordOf(h, d) ==
    Field("hourlyCost", HourlyColumn(h)) @@ Field("dailyCost", DailyColumn(d))

\* Alice has a usage record, Bob has none
InitRateLimit ==
    /\ WrapperIdle
    /\ now \in {[day |-> Today, hour |-> h] : h \in {ShortDay - 1, ShortDay}}
    /\ env \in {AllEnv, AllEnv \ {CostVar}}
    /\ \E u \in {Alice, Bob}, p \in RatePeriods, r \in 1..4, h \in 1..8,
          d \in 1..5, st \in {"ok", "Boto3Error", "Exception"} :
          fn_args = [fn |-> "is_rate_limited", current_user |-> u,
                     rate_limit |-> RateLimitConfig(p, r),
                     table |-> [status |-> st,
                                items |-> (Alice :> UsageRecordOf(h, d))]]
    /\ fn_result = NoValue
    /\ threads = <<>>

\* is_rate_limited(current_user, rate_limit)
CallIsRateLimited ==
    /\ fn_args.fn = "is_rate_limited"
    /\ "none" \in DOMAIN fn_result
    /\ fn_result' = IsRateLimited(fn_args.current_user, fn_args.rate_limit, env, now,
                                  fn_args.table)
    /\ UNCHANGED <<config, api_keys_table, world, request, wrapper_state, fn_args, threads>>

NextRateLimit == CallIsRateLimited

SpecRateLimit == InitRateLimit /\ [][NextRateLimit]_vars

\* the arguments of the call, read without the function under study
RatePeriod == Get(fn_args.rate_limit, "period", None)
RateValue == Get(fn_args.rate_limit, "rate", PyNone)
UsageQueried == fn_args.table.status = "ok"
UsageRecord == fn_args.table.items[fn_args.current_user]
HasUsageRecord == fn_args.current_user \in DOMAIN fn_args.table.items
UsageColumn ==
    Get(UsageRecord,
        CASE RatePeriod = "Hourly" -> "hourlyCost"
          [] RatePeriod = "Daily" -> "dailyCost"
          [] OTHER -> "monthlyCost",
        Absent)
HourlyUsable == UsageColumn.t = "list" /\ Len(UsageColumn.v) > now.hour
Spent == IF RatePeriod = "Hourly" THEN UsageColumn.v[now.hour + 1] ELSE UsageColumn

\* all the conditions of a limited answer, in the order they are checked
LimitedConditions ==
    /\ RatePeriod # None /\ RatePeriod # UNLIMITED
    /\ UsageQueried /\ HasUsageRecord
    /\ UsageColumn # Absent
    /\ RatePeriod = "Hourly" => HourlyUsable
    /\ RateValue.t # "NoneType"
    /\ Spent.t = "num" /\ RateValue.t = "num"
    /\ Spent.v >= RateValue.v

C12_LimitedIff ==
    (Called("is_rate_limited") /\ fn_result.kind = "return") =>
        /\ fn_result.value[1] <=> LimitedConditions
        /\ fn_result.value[1] =>
              fn_result.value[2] = "rate limit exceeded ($5.00/" \o RatePeriod \o ")"

C12_Witness ==
    /\ Called("is_rate_limited")
    /\ RatePeriod = "Hourly"
    /\ HasUsageRecord
    /\ HourlyUsable
    /\ Spent = PyNum(500) /\ RateValue = PyNum(500)
    /\ fn_result = Ret(<<TRUE, "rate limit exceeded ($5.00/Hourly)">>)

(***************************************************************************)
(* api_claims on its own, the registry holding one record                  *)
(***************************************************************************)
ApiKeysVar == "API_KEYS_DYNAMODB_TABLE"

\* who the record belongs to: an owner, an owner key without its owner, a
\* key of a kind that is not known, a delegate (Bob, who is over his quota)
RecordId(k) ==
    CASE k \in {1, 2} -> IdFull
      [] k = 3 -> IdNoKind
      [] k = 4 -> IdOver
RecordUser(k) ==
    CASE k = 1 -> ("owner" :> PyStr(Alice))
      [] k = 2 -> [x \in {} |-> Absent]
      [] k = 3 -> ("owner" :> PyStr(Alice))
      [] k = 4 -> ("delegate" :> PyStr(Bob))

\* a record of the registry: active (TRUE, FALSE, missing), expirationDate
\* (missing, yesterday, today, tomorrow), accessTypes, user, rateLimit,
\* account (there or missing)
RegistryRecord(key, a, e, t, k, r, c) ==
    [api_owner_id |-> RecordId(k), apiKey |-> key]
    @@ (IF c = 2 THEN [x \in {} |-> Absent] ELSE ("account" :> [id |-> "acct"]))
    @@ (IF a = 3 THEN [x \in {} |-> Absent] ELSE ("active" :> (a = 1)))
    @@ (IF e = 1 THEN [x \in {} |-> Absent]
        ELSE ("expirationDate" :> (Today + e - 3)))
    @@ (CASE t = 1 -> [x \in {} |-> Absent]
          [] t = 2 -> ("accessTypes" :> <<"chat">>)
          [] t = 3 -> ("accessTypes" :> <<"full_access">>))
    @@ RecordUser(k)
    @@ (IF r = 1 THEN [x \in {} |-> Absent] ELSE ("rateLimit" :> HourlyFive))

InitApiClaims ==
    /\ access_types \in {<<FULL_ACCESS>>, <<FULL_ACCESS, "chat">>}
    /\ validate_rules = NoValue
    /\ permission_checker = NoChecker
    /\ now = [day |-> Today, hour |-> 13]
    /\ env \in {AllEnv, AllEnv \ {ApiKeysVar}, AllEnv \ {CostVar}}
    /\ \E key \in {KeyGenerator(TokFull), TokLegacy}, a \in 1..3, e \in 1..4,
          t \in 1..3, k \in 1..4, r \in 1..2, c \in 1..2 :
          /\ api_keys_table = (RecordId(k) :> RegistryRecord(key, a, e, t, k, r, c))
          /\ \E tok \in {TokFull, TokLegacy, TokUnknown} :
                fn_args = [fn |-> "api_claims", token |-> tok,
                           table |-> api_keys_table]
    /\ fn_result = NoValue
    /\ threads = <<>>
    /\ event = NoRequest
    /\ op = None
    /\ validate_body = FALSE
    /\ jwks = "ok"
    /\ pc = "idle"
    /\ token = <<>>
    /\ api_accessed = FALSE
    /\ claims = NoValue
    /\ name = None
    /\ data = NoValue
    /\ response = NoValue
    /\ raised = NoValue
    /\ exc = NoValue
    /\ stages = <<>>
    /\ handler_calls = <<>>
    /\ checker_calls = <<>>
    /\ lookups = <<>>
    /\ writes = <<>>
    /\ nreq = 0

\* api_claims(event, context, token)
CallApiClaims ==
    /\ fn_args.fn = "api_claims"
    /\ "none" \in DOMAIN fn_result
    /\ LET out == ApiClaims(fn_args.token, api_keys_table, access_types, env, now,
                            CostCalcTable)
       IN  /\ fn_result' = out.result
           /\ lookups' = out.lookups
           /\ writes' = out.writes
           /\ api_keys_table' =
                 IF out.writes = <<>> THEN api_keys_table
                 ELSE TouchLastAccessed(api_keys_table, out.writes[1].key, now)
    /\ UNCHANGED <<config, world, request, pc, locals, response, raised, exc,
                   stages, handler_calls, checker_calls, nreq, fn_args, threads>>

NextApiClaims == CallApiClaims

SpecApiClaims == InitApiClaims /\ [][NextApiClaims]_vars

\* the record the token of the call indexes, read from the registry as it was
\* before the call
Found == RecordsOf(fn_args.token) # {}
FoundRecord == fn_args.table[CHOOSE id \in RecordsOf(fn_args.token) : TRUE]
NotActive == ~Get(FoundRecord, "active", FALSE)
Expired ==
    /\ "expirationDate" \in DOMAIN FoundRecord
    /\ FoundRecord.expirationDate <= now.day
NoAccess ==
    \/ "accessTypes" \notin DOMAIN FoundRecord
    \/ ~\E i \in 1..Len(access_types), j \in 1..Len(FoundRecord.accessTypes) :
           access_types[i] = FoundRecord.accessTypes[j]
UsageStoreQueried == \E i \in 1..Len(lookups) : lookups[i].store = "usage"
FailsWith(type, message) == Raise(BuiltinError(type, message))

\* C14: api_claims fails with the first failing check in the order not found
\* (LookupError), not active, expired, no accepted access type (the three of
\* them PermissionError); in these cases the usage store is not queried and
\* no claims are returned
C14_FirstFailingCheck ==
    (Called("api_claims") /\ ApiKeysVar \in env) =>
        LET early ==
              CASE ~Found -> FailsWith("LookupError", "API key not found.")
                [] Found /\ NotActive ->
                     FailsWith("PermissionError", "API key is inactive.")
                [] Found /\ ~NotActive /\ Expired ->
                     FailsWith("PermissionError", "API key has expired.")
                [] Found /\ ~NotActive /\ ~Expired /\ NoAccess ->
                     FailsWith("PermissionError",
                        "API key does not have access to the required functionality.")
                [] OTHER -> NoValue
        IN  IF "none" \notin DOMAIN early
            THEN /\ fn_result = early
                 /\ ~UsageStoreQueried
                 /\ writes = <<>>
            ELSE \/ fn_result.kind = "return"
                 \/ fn_result.exc.type \notin {"LookupError", "PermissionError"}

C14_Witness ==
    /\ Called("api_claims")
    /\ Found /\ NotActive /\ Expired /\ NoAccess
    /\ fn_result = FailsWith("PermissionError", "API key is inactive.")
    /\ lookups # <<>>

\* C15 (as claimed): a run of api_claims that returns claims writes the
\* last-accessed timestamp of the record of the key, once, and nothing else;
\* a run that fails, whatever the error, writes nothing
C15_OnlyLastAccessed ==
    /\ (fn_args.fn = "api_claims" /\ ~Called("api_claims")) =>
          writes = <<>> /\ api_keys_table = fn_args.table
    /\ Called("api_claims") =>
          IF fn_result.kind = "return"
          THEN LET id == fn_result.value.api_key_id
               IN  /\ writes = <<[store |-> "api_keys", key |-> id,
                                  field |-> "lastAccessed"]>>
                   /\ DOMAIN api_keys_table = DOMAIN fn_args.table
                   /\ DOMAIN api_keys_table[id] =
                         DOMAIN fn_args.table[id] \cup {"lastAccessed"}
                   /\ api_keys_table[id].lastAccessed = now
                   /\ \A f \in DOMAIN fn_args.table[id] :
                         api_keys_table[id][f] = fn_args.table[id][f]
          ELSE /\ writes = <<>>
               /\ api_keys_table = fn_args.table

(***************************************************************************)
(* get_claims on its own                                                   *)
(***************************************************************************)
MaxAccounts == 2

AccountIds == <<"acct_a", "acct_b", "acct_c", "acct_d">>
DailyThousand == [period |-> "Daily", rate |-> PyNum(1000)]

\* the i-th sub-record of an account list: flagged default or not, with a
\* rate limit of its own or without
AccountChoice(i, c) ==
    [id |-> AccountIds[i], isDefault |-> (c >= 3)]
    @@ (CASE c \in {1, 3} -> [x \in {} |-> Absent]
          [] c \in {2, 4} -> ("rateLimit" :> HourlyFive)
          [] c = 5 -> ("rateLimit" :> DailyThousand))

AccountChoices == 1..5

\* what get_item finds for Alice: no Item, an Item without an accounts member,
\* an Item with the accounts list
StoredAccounts(kind, accounts) ==
    CASE kind = 1 -> [u \in {} |-> Absent]
      [] kind = 2 -> (Alice :> [user |-> Alice])
      [] kind = 3 -> (Alice :> [user |-> Alice, accounts |-> accounts])

InitGetClaims ==
    /\ access_types = <<FULL_ACCESS>>
    /\ validate_rules = NoValue
    /\ permission_checker = NoChecker
    /\ now = [day |-> Today, hour |-> 13]
    /\ env \in {AllEnv \cup {"IDP_PREFIX"}, AllEnv,
               AllEnv \ {"ACCOUNTS_DYNAMO_TABLE"}}
    /\ jwks \in JwksStates
    /\ api_keys_table = [id \in {} |-> Absent]
    /\ \E n \in 0..MaxAccounts, kind \in 1..3 :
          \E choice \in [1..n -> AccountChoices] :
             \E tok \in {JwtAlice, JwtNoAccount, JwtExpired, JwtPrefixOnly,
                         JwtPrefixTwice, JwtPrefixInside} :
                /\ kind = 3 \/ n = 0
                /\ fn_args =
                      [fn |-> "get_claims", token |-> tok,
                       table |-> StoredAccounts(kind,
                                    [i \in 1..n |-> AccountChoice(i, choice[i])])]
    /\ fn_result = NoValue
    /\ threads = <<>>
    /\ event = NoRequest
    /\ op = None
    /\ validate_body = FALSE
    /\ pc = "idle"
    /\ token = <<>>
    /\ api_accessed = FALSE
    /\ claims = NoValue
    /\ name = None
    /\ data = NoValue
    /\ response = NoValue
    /\ raised = NoValue
    /\ exc = NoValue
    /\ stages = <<>>
    /\ handler_calls = <<>>
    /\ checker_calls = <<>>
    /\ lookups = <<>>
    /\ writes = <<>>
    /\ nreq = 0

\* get_claims(token)
CallGetClaims ==
    /\ fn_args.fn = "get_claims"
    /\ "none" \in DOMAIN fn_result
    /\ LET out == GetClaims(fn_args.token, env, jwks, fn_args.table)
       IN  /\ fn_result' = out.result
           /\ lookups' = out.lookups
           /\ writes' = out.writes
    /\ UNCHANGED <<config, world, api_keys_table, request, pc, locals,
                   response, raised, exc, stages, handler_calls, checker_calls,
                   nreq, fn_args, threads>>

NextGetClaims == CallGetClaims

SpecGetClaims == InitGetClaims /\ [][NextGetClaims]_vars

\* the user of the call, the Item of that user and its account sub-records
ClaimsUser ==
    StripIdpPrefix(JwtContent(fn_args.token).payload.username,
                   IF "IDP_PREFIX" \in env THEN Lower(IdpPrefix) ELSE <<>>)
HasItem == ClaimsUser \in DOMAIN fn_args.table
SubRecords ==
    IF HasItem THEN Get(fn_args.table[ClaimsUser], "accounts", <<>>) ELSE <<>>
Defaults == {i \in 1..Len(SubRecords) : SubRecords[i].isDefault}
RateLimitOf(acct) ==
    IF "rateLimit" \in DOMAIN acct THEN acct.rateLimit ELSE NO_RATE_LIMIT
Resolved == Called("get_claims") /\ fn_result.kind = "return"

\* C16 (as claimed): the account of the claims is the id of a sub-record
\* flagged default and the rate limit is the one of that same sub-record, the
\* no-limit config when it has none; without a default the account is
\* "general_account" and the rate limit the no-limit config; allowed_access
\* is ["full_access"]
C16_DefaultAccount ==
    Resolved =>
        /\ fn_result.value.allowed_access = <<FULL_ACCESS>>
        /\ IF Defaults = {}
           THEN /\ fn_result.value.account = "general_account"
                /\ fn_result.value.rate_limit = NO_RATE_LIMIT
           ELSE \E i \in Defaults :
                   /\ fn_result.value.account = SubRecords[i].id
                   /\ fn_result.value.rate_limit = RateLimitOf(SubRecords[i])

\* C17: without an Item for the user get_claims returns the claims of the
\* fallback account, with no rate limit and full access
C17_NoAccountRecord ==
    (Called("get_claims") /\ ~HasItem
       /\ "ACCOUNTS_DYNAMO_TABLE" \in env /\ jwks = "ok"
       /\ JwtContent(fn_args.token).verify = "ok") =>
        fn_result = Ret([username |-> PyStr(ClaimsUser),
                         account |-> "general_account",
                         rate_limit |-> NO_RATE_LIMIT,
                         allowed_access |-> <<FULL_ACCESS>>])

C17_Witness ==
    /\ Called("get_claims")
    /\ fn_args.token = JwtNoAccount
    /\ ~HasItem
    /\ DOMAIN fn_args.table # {}
    /\ fn_result.kind = "return"
    /\ fn_result.value.account = "general_account"
    /\ \E i \in 1..Len(lookups) : lookups[i].store = "accounts"

(***************************************************************************)
(* _parse_and_validate on its own                                          *)
(***************************************************************************)
\* lines 328-424: the path and the body, the schema when validate_body, then
\* the permission checker
ParseAndValidate(current_user, ev, operation, api, validator_rules, vb, checker) ==
    LET extracted == ExtractPathAndBody(ev)
        route == extracted.value[1]
        d == extracted.value[2]
        validated == IF vb
                     THEN ValidateSchema(route, operation, d, api, validator_rules)
                     ELSE Ret(None)
    IN  IF extracted.kind = "raise" THEN extracted
        ELSE IF validated.kind = "raise" THEN validated
        ELSE CheckPermission(checker, current_user, route, operation, d).result

\* a rule table whose schema for append is not a schema
rules_bad_schema ==
    [validators |-> (RouteShare :> [append |-> [type |-> "objekt"]]),
     api_validators |-> (RouteShare :> [append |-> [type |-> "objekt"]])]

ValidatorRules == RuleTables \cup {rules_bad_schema}
ValidateCheckers == {NoChecker, Checker("closure", "True"), Checker("closure", "False")}

InitParseAndValidate ==
    /\ access_types = <<FULL_ACCESS>>
    /\ validate_rules = NoValue
    /\ permission_checker = NoChecker
    /\ now = [day |-> Today, hour |-> 13]
    /\ env = AllEnv
    /\ jwks = "ok"
    /\ api_keys_table = [id \in {} |-> Absent]
    /\ \E shape \in PathShapes, body \in Bodies, o \in Ops, api \in BOOLEAN,
          r \in ValidatorRules, vb \in BOOLEAN, c \in ValidateCheckers :
          fn_args = [fn |-> "_parse_and_validate", current_user |-> Alice,
                     event |-> MakeEvent(<<>>, shape, body), op |-> o,
                     api_accessed |-> api, validator_rules |-> r,
                     validate_body |-> vb, permission_checker |-> c]
    /\ fn_result = NoValue
    /\ threads = <<>>
    /\ event = NoRequest
    /\ op = None
    /\ validate_body = FALSE
    /\ pc = "idle"
    /\ token = <<>>
    /\ api_accessed = FALSE
    /\ claims = NoValue
    /\ name = None
    /\ data = NoValue
    /\ response = NoValue
    /\ raised = NoValue
    /\ exc = NoValue
    /\ stages = <<>>
    /\ handler_calls = <<>>
    /\ checker_calls = <<>>
    /\ lookups = <<>>
    /\ writes = <<>>
    /\ nreq = 0

\* _parse_and_validate(current_user, event, op, api_accessed, validator_rules,
\* validate_body, permission_checker)
CallParseAndValidate ==
    /\ fn_args.fn = "_parse_and_validate"
    /\ "none" \in DOMAIN fn_result
    /\ fn_result' = ParseAndValidate(fn_args.current_user, fn_args.event,
                                     fn_args.op, fn_args.api_accessed,
                                     fn_args.validator_rules,
                                     fn_args.validate_body,
                                     fn_args.permission_checker)
    /\ UNCHANGED <<config, world, api_keys_table, request, pc, locals, response,
                   raised, exc, stages, calls, nreq, fn_args, threads>>

NextParseAndValidate == CallParseAndValidate

SpecParseAndValidate == InitParseAndValidate /\ [][NextParseAndValidate]_vars

\* the rule table of the origin of the call, the route and the parsed body
OriginTable(validator_rules, api) ==
    Get(validator_rules, IF api THEN "api_validators" ELSE "validators", <<>>)
CallTable == OriginTable(fn_args.validator_rules, fn_args.api_accessed)
CallRoute == ExtractPath(fn_args.event)
CallBody == ParseBody(fn_args.event)
NoTable(t) == DOMAIN t = {}
NoEntry(t, route, operation) ==
    /\ ~NoTable(t)
    /\ ~(route \in DOMAIN t /\ operation \in DOMAIN t[route])
Validating ==
    /\ Called("_parse_and_validate")
    /\ fn_args.validate_body
    /\ CallBody.kind = "return"
    /\ CallRoute \notin {None, ""}
\* what the caller of the wrapper sees of a result
Seen(result) ==
    IF result.kind = "raise" /\ IsHTTPException(result.exc)
    THEN Caught(result.exc).response
    ELSE result

\* C18 (as claimed): when no rule table is configured for the origin of the
\* call, the caller sees the status code and the message that the same call
\* gives with any rule table that has no entry for its route and operation
C18_SameFailure ==
    (Validating /\ NoTable(CallTable)) =>
        \A r \in ValidatorRules :
            NoEntry(OriginTable(r, fn_args.api_accessed), CallRoute, fn_args.op) =>
                Seen(ParseAndValidate(fn_args.current_user, fn_args.event,
                                      fn_args.op, fn_args.api_accessed, r,
                                      fn_args.validate_body,
                                      fn_args.permission_checker))
                = Seen(fn_result)

\* the schema of the route and operation of the call, when there is one
Configured ==
    /\ Validating
    /\ CallRoute \in DOMAIN CallTable
    /\ fn_args.op \in DOMAIN CallTable[CallRoute]
CallSchema == CallTable[CallRoute][fn_args.op]
WellFormed(schema) ==
    /\ "type" \in DOMAIN schema => schema.type \in SchemaTypes
    /\ \A k \in DOMAIN Get(schema, "properties", <<>>) :
          "type" \in DOMAIN schema.properties[k] =>
              schema.properties[k].type \in SchemaTypes
HasPayload == CallBody.value.t = "dict" /\ "data" \in DOMAIN CallBody.value.v
Payload == CallBody.value.v["data"]
\* whether a value is what a schema of type, required and properties asks for
Satisfies(val, schema) ==
    /\ "type" \in DOMAIN schema => HasType(val, schema.type)
    /\ val.t = "dict" =>
          /\ \A i \in 1..Len(Get(schema, "required", <<>>)) :
                schema.required[i] \in DOMAIN val.v
          /\ \A k \in DOMAIN Get(schema, "properties", <<>>) \cap DOMAIN val.v :
                "type" \in DOMAIN schema.properties[k] =>
                    HasType(val.v[k], schema.properties[k].type)
PassedValidation ==
    \/ fn_result.kind = "return"
    \/ fn_result.exc.type = "HTTPUnauthorized"

\* C19: with the empty schema every body passes validation; with another
\* schema a body passes exactly when its "data" payload satisfies the schema,
\* and a payload that violates it is answered with HTTPBadRequest (400)
C19_SchemaValidation ==
    (Configured /\ WellFormed(CallSchema)) =>
        IF DOMAIN CallSchema = {}
        THEN PassedValidation
        ELSE /\ PassedValidation <=> (HasPayload /\ Satisfies(Payload, CallSchema))
             /\ (HasPayload /\ ~Satisfies(Payload, CallSchema)) =>
                   /\ fn_result.kind = "raise"
                   /\ fn_result.exc.type = "HTTPBadRequest"
                   /\ fn_result.exc.status_code = 400

C19_Witness ==
    /\ Configured
    /\ CallSchema = share_schema
    /\ HasPayload
    /\ "key" \in DOMAIN Payload.v /\ "value" \notin DOMAIN Payload.v
    /\ fn_result = Raise(HTTPBadRequest("Invalid data: is a required property"))

\* C20 (as claimed): _parse_and_validate returns [route, data] or raises
\* HTTPBadRequest or HTTPUnauthorized, and nothing else
C20_OnlyTypedErrors ==
    Called("_parse_and_validate") =>
        \/ /\ fn_result.kind = "return"
           /\ fn_result.value = <<CallRoute, CallBody.value>>
        \/ /\ fn_result.kind = "raise"
           /\ fn_result.exc.type \in {"HTTPBadRequest", "HTTPUnauthorized"}

\* C21 (as claimed): without validate_body the body is not parsed: whatever
\* the body, the call goes on to the permission check with the empty object
\* as data and a body that is not JSON gives no HTTPBadRequest
C21_ParsedOnlyWhenValidating ==
    (Called("_parse_and_validate") /\ ~fn_args.validate_body
       /\ CallRoute \notin {None, ""}) =>
        fn_result = CheckPermission(fn_args.permission_checker,
                                    fn_args.current_user, CallRoute,
                                    fn_args.op, EmptyDict).result

(***************************************************************************)
(* The data handed to the handler                                          *)
(***************************************************************************)
\* the handler was the last stage of the request in progress
HandlerJustCalled ==
    /\ pc = "done"
    /\ handler_calls # <<>>
    /\ stages # <<>>
    /\ stages[Len(stages)].stage = "handler"
LastCall == handler_calls[Len(handler_calls)]

IsNoRateLimit(rl) ==
    /\ DOMAIN rl = {"period", "rate"}
    /\ rl.period = UNLIMITED
    /\ rl.rate = PyNone

\* C23 (as claimed): the claims a resolver returns carry the rate limit of
\* the source record, and the no-limit config when the record has none
C23_RateLimitDefault ==
    /\ (Called("api_claims") /\ fn_result.kind = "return") =>
          IF "rateLimit" \in DOMAIN FoundRecord
          THEN fn_result.value.rate_limit = FoundRecord.rateLimit
          ELSE IsNoRateLimit(fn_result.value.rate_limit)
    /\ (Resolved /\ Cardinality(Defaults) <= 1) =>
          IF \E i \in Defaults : "rateLimit" \in DOMAIN SubRecords[i]
          THEN \E i \in Defaults :
                  fn_result.value.rate_limit = SubRecords[i].rateLimit
          ELSE IsNoRateLimit(fn_result.value.rate_limit)

(***************************************************************************)
(* The username of the claims                                              *)
(***************************************************************************)
\* C24 (as claimed): the username of the claims a resolver returns is a
\* non-empty string
C24_UsernameNonEmpty ==
    (("none" \notin DOMAIN fn_result) /\ fn_args.fn \in {"get_claims", "api_claims"}
       /\ fn_result.kind = "return") =>
        /\ fn_result.value.username.t = "str"
        /\ fn_result.value.username.v # <<>>

(***************************************************************************)
(* The resolver of a request                                               *)
(***************************************************************************)
LookedUp(stores) == \E i \in 1..Len(lookups) : lookups[i].store \in stores
TokenExtracted == StageOk("token")

\* C25: the token of a request goes to api_claims when its first four
\* characters are "amp-" and to get_claims otherwise; a request with an API
\* key fetches no key set and reads no account, a request with another
\* token reads no key registry, and only a token that starts with "amp-v1-"
\* and went to api_claims is looked up by digest
C25_OneResolver ==
    TokenExtracted =>
        /\ api_accessed = (Prefix(token, 4) = AmpPrefix)
        /\ Prefix(token, 4) = AmpPrefix => ~LookedUp({"jwks", "accounts"})
        /\ Prefix(token, 4) # AmpPrefix => ~LookedUp({"api_keys", "usage"})
        /\ \A i \in 1..Len(lookups) :
              lookups[i].by_digest =>
                  /\ lookups[i].store = "api_keys"
                  /\ Prefix(token, 7) = AmpV1Prefix
                  /\ api_accessed
        /\ ~(LookedUp({"jwks", "accounts"}) /\ LookedUp({"api_keys", "usage"}))

C25_Witness ==
    /\ TokenExtracted
    /\ token = TokLegacy
    /\ StageOk("claims")
    /\ LookedUp({"api_keys"})
    /\ \A i \in 1..Len(lookups) : ~lookups[i].by_digest

(***************************************************************************)
(* The route path of the event                                             *)
(***************************************************************************)
\* what the four places of an event hold, None for a place that is not there
PathPlaces(ev) ==
    LET rc == Get(ev, "requestContext", <<>>)
    IN  <<Get(ev, "path", None),
          Get(ev, "rawPath", None),
          Get(Get(rc, "http", <<>>), "path", None),
          Get(rc, "path", None)>>
RECURSIVE FirstNonNull(_)
FirstNonNull(places) ==
    IF places = <<>> THEN None
    ELSE IF Head(places) # None THEN Head(places)
    ELSE FirstNonNull(Tail(places))

\* C26 (as claimed): the route is the first value that is not null among
\* path, rawPath, requestContext.http.path and requestContext.path, and the
\* HTTPBadRequest of a missing path is raised only when none of the four
\* holds a non-empty path
C26_FirstNonNullWins ==
    (Called("_parse_and_validate") /\ CallBody.kind = "return") =>
        LET places == PathPlaces(fn_args.event)
        IN  /\ fn_result.kind = "return" =>
                  fn_result.value[1] = FirstNonNull(places)
            /\ fn_result = Raise(HTTPBadRequest(
                   "Unable to perform the operation, invalid request.")) =>
                  \A i \in 1..4 : places[i] \in {None, ""}

(***************************************************************************)
(* _determine_api_user on its own                                          *)
(***************************************************************************)
\* api_owner_id: not there, of each kind, of an unknown kind, without a
\* kind, with another kind before the owner kind, with an empty kind
OwnerIdChoice(i) ==
    CASE i = 1 -> Absent
      [] i = 2 -> <<"a", "l", "/">> \o OwnerKind \o KeySlash \o <<"1">>
      [] i = 3 -> <<"a", "l", "/">> \o DelegateKind \o KeySlash \o <<"1">>
      [] i = 4 -> <<"a", "l", "/">> \o SystemKind \o KeySlash \o <<"1">>
      [] i = 5 -> <<"a", "l", "/", "a", "d", "m", "i", "n">> \o KeySlash \o <<"1">>
      [] i = 6 -> <<"a", "l", "-">> \o OwnerKind \o <<"-", "1">>
      [] i = 7 -> <<"a", "l", "/", "x">> \o KeySlash \o OwnerKind \o KeySlash \o <<"1">>
      [] i = 8 -> <<"a", "l", "/">> \o KeySlash \o <<"1">>
OwnerIdChoices == 1..8

\* an identity field: not there, a name, empty, a number, None
IdentityChoice(i, who) ==
    CASE i = 1 -> Absent
      [] i = 2 -> PyStr(who)
      [] i = 3 -> PyStr(<<>>)
      [] i = 4 -> PyNum(12345)
      [] i = 5 -> PyNone
IdentityChoices == 1..5

KeyRecord(id, o, d, s) ==
    Field("api_owner_id", OwnerIdChoice(id))
    @@ Field("owner", IdentityChoice(o, Alice))
    @@ Field("delegate", IdentityChoice(d, Bob))
    @@ Field("systemId", IdentityChoice(s, Carol))

InitDetermineApiUser ==
    /\ access_types = <<FULL_ACCESS>>
    /\ validate_rules = NoValue
    /\ permission_checker = NoChecker
    /\ now = [day |-> Today, hour |-> 13]
    /\ env = AllEnv
    /\ jwks = "ok"
    /\ api_keys_table = [id \in {} |-> Absent]
    /\ \E id \in OwnerIdChoices, o \in IdentityChoices, d \in IdentityChoices,
          s \in IdentityChoices :
          fn_args = [fn |-> "_determine_api_user", data |-> KeyRecord(id, o, d, s)]
    /\ fn_result = NoValue
    /\ threads = <<>>
    /\ event = NoRequest
    /\ op = None
    /\ validate_body = FALSE
    /\ pc = "idle"
    /\ token = <<>>
    /\ api_accessed = FALSE
    /\ claims = NoValue
    /\ name = None
    /\ data = NoValue
    /\ response = NoValue
    /\ raised = NoValue
    /\ exc = NoValue
    /\ stages = <<>>
    /\ handler_calls = <<>>
    /\ checker_calls = <<>>
    /\ lookups = <<>>
    /\ writes = <<>>
    /\ nreq = 0

\* _determine_api_user(data)
CallDetermineApiUser ==
    /\ fn_args.fn = "_determine_api_user"
    /\ "none" \in DOMAIN fn_result
    /\ fn_result' = DetermineApiUser(fn_args.data)
    /\ UNCHANGED <<config, world, api_keys_table, request, pc, locals, response,
                   raised, exc, stages, calls, nreq, fn_args, threads>>

NextDetermineApiUser == CallDetermineApiUser

SpecDetermineApiUser == InitDetermineApiUser /\ [][NextDetermineApiUser]_vars

\* the identity field of the kind of the key of the call, None for a key
\* without a kind of the three
KindOfCall ==
    IF "api_owner_id" \notin DOMAIN fn_args.data THEN PyNone
    ELSE KeyTypeOf(fn_args.data.api_owner_id)
IdentityField ==
    CASE KindOfCall = PyStr(OwnerKind) -> "owner"
      [] KindOfCall = PyStr(DelegateKind) -> "delegate"
      [] KindOfCall = PyStr(SystemKind) -> "systemId"
      [] OTHER -> None
HasIdentity ==
    /\ IdentityField # None
    /\ IdentityField \in DOMAIN fn_args.data
    /\ fn_args.data[IdentityField].t = "str"
    /\ fn_args.data[IdentityField].v # <<>>

\* C27: _determine_api_user returns the owner, delegate or systemId of the
\* record, by the kind of the first "/<kind>Key/" of api_owner_id, when that
\* field is a non-empty string, and raises UnknownApiUserException otherwise
C27_IdentityByKind ==
    Called("_determine_api_user") =>
        IF HasIdentity
        THEN fn_result = Ret(fn_args.data[IdentityField].v)
        ELSE /\ fn_result.kind = "raise"
             /\ fn_result.exc.type = "UnknownApiUserException"

C27_Witness ==
    /\ Called("_determine_api_user")
    /\ KindOfCall = PyStr(DelegateKind)
    /\ Get(fn_args.data, "owner", PyNone).t = "str"
    /\ Get(fn_args.data, "delegate", PyNone).t = "num"
    /\ fn_result.kind = "raise"
    /\ fn_result.exc.type = "UnknownApiUserException"

TokenUsername == JwtContent(fn_args.token).payload.username
ConfiguredPrefix == IF "IDP_PREFIX" \in env THEN IdpPrefix ELSE <<>>
\* u without its first Len(p) + 1 characters when it starts with p and "_"
WithoutLeading(u, p) ==
    IF p # <<>> /\ Len(u) > Len(p) /\ SubSeq(u, 1, Len(p) + 1) = p \o <<"_">>
    THEN SubSeq(u, Len(p) + 2, Len(u))
    ELSE u
\* the username of the claims and the key of the account lookup
UsernameIs(u) ==
    /\ fn_result.value.username = PyStr(u)
    /\ \E i \in 1..Len(lookups) :
          lookups[i].store = "accounts" /\ lookups[i].key = u
    /\ \A i \in 1..Len(lookups) :
          lookups[i].store = "accounts" => lookups[i].key = u

\* C29 (as claimed): a username that starts with the configured prefix and
\* "_" loses that first occurrence, any other username is unchanged, and the
\* result is the key of the account lookup and the username of the claims
C29_StripConfigured ==
    Resolved => UsernameIs(WithoutLeading(TokenUsername, ConfiguredPrefix))

\* C29 (amended): as above, with the configured prefix in lower case
C29_StripOnce ==
    Resolved => UsernameIs(WithoutLeading(TokenUsername, Lower(ConfiguredPrefix)))

C29_Witness ==
    /\ Resolved
    /\ "IDP_PREFIX" \in env
    /\ fn_args.token = JwtPrefixTwice
    /\ fn_result.value.username = PyStr(<<"i", "d", "p", "_", "a", "l">>)

(***************************************************************************)
(* Two wrappers that run concurrently                                      *)
(***************************************************************************)
Threads == {1, 2}

\* what the caller of the wrapper gets and what the handler was called with
Finished(resp, err, call) == [response |-> resp, raised |-> err, handler |-> call]
Answered(e) == Finished(Caught(e).response, Caught(e).raised, NoValue)

\* lines 700-752: the wrapper from the result of the resolver on
AfterClaims(req, tok, api, resolved, validator_rules, checker) ==
    LET cl == resolved.value
        parsed == ParseAndValidate(cl.username.v, req.event, req.op, api,
                                   RulesOrEmpty(validator_rules),
                                   req.validate_body, checker)
        enriched == Enriched(parsed.value[2], tok, api, cl)
        call == [user |-> cl.username.v, name |-> parsed.value[1],
                 data |-> enriched.value]
        f == req.handler
    IN  IF resolved.kind = "raise" THEN Answered(resolved.exc)
        ELSE IF cl.username.t = "NoneType"
        THEN Answered(HTTPUnauthorized("User not found."))
        ELSE IF parsed.kind = "raise" THEN Answered(parsed.exc)
        ELSE IF enriched.kind = "raise" THEN Answered(enriched.exc)
        ELSE IF f.kind = "raise"
        THEN Finished(Caught(f.exc).response, Caught(f.exc).raised, call)
        ELSE IF JsonDumps(f.value).kind = "raise"
        THEN Finished(Caught(JsonDumps(f.value).exc).response,
                      Caught(JsonDumps(f.value).exc).raised, call)
        ELSE Finished([statusCode |-> 200, body |-> JsonDumps(f.value).value],
                      NoValue, call)

\* lines 689-752: a request that is served with no other request in progress
WrapperAlone(req, table, accepted, validator_rules, checker, envv, clock) ==
    LET parsed == ParseToken(req.event)
        tok == parsed.value
        api == Prefix(tok, 4) = AmpPrefix
        out == IF api
               THEN ApiClaims(tok, table, accepted, envv, clock, CostCalcTable)
               ELSE GetClaims(tok, envv, req.jwks, AccountsTable)
    IN  IF parsed.kind = "raise" THEN Answered(parsed.exc)
        ELSE AfterClaims(req, tok, api, out.result, validator_rules, checker)

\* the requests of the two threads
ConcurrentTokens == {TokFull, TokLegacy, TokOver, JwtAlice}
ConcurrentRequests ==
    {[event |-> MakeEvent(HeadersWith(tok), [path |-> RouteShare], b),
      jwks |-> "ok", op |-> "append", validate_body |-> TRUE, handler |-> f] :
        tok \in ConcurrentTokens, b \in {BodyShare, BodyNoValue},
        f \in {Ret("ok_dict"), Raise(HTTPBadRequest("bad input"))}}

Thread(req) ==
    [request |-> req, pc |-> "start", token |-> <<>>, api_accessed |-> FALSE,
     snapshot |-> NoValue, resolved |-> NoValue, outcome |-> NoValue]

InitConcurrent ==
    /\ access_types = <<FULL_ACCESS>>
    /\ validate_rules = rules_with_api
    /\ permission_checker = Checker("closure", "alice_only")
    /\ now = [day |-> Today, hour |-> 13]
    /\ env = AllEnv \cup {"IDP_PREFIX"}
    /\ jwks = "ok"
    /\ api_keys_table = InitialApiKeys
    /\ threads \in [Threads -> {Thread(r) : r \in ConcurrentRequests}]
    /\ fn_args = NoValue
    /\ fn_result = NoValue
    /\ event = NoRequest
    /\ op = None
    /\ validate_body = FALSE
    /\ pc = "idle"
    /\ token = <<>>
    /\ api_accessed = FALSE
    /\ claims = NoValue
    /\ name = None
    /\ data = NoValue
    /\ response = NoValue
    /\ raised = NoValue
    /\ exc = NoValue
    /\ stages = <<>>
    /\ handler_calls = <<>>
    /\ checker_calls = <<>>
    /\ lookups = <<>>
    /\ writes = <<>>
    /\ nreq = 0

ThreadRest ==
    <<config, world, request, pc, locals, response, raised, exc, stages, calls,
      nreq, fn_args, fn_result>>

\* lines 691-692: the token and its origin
ThreadStart(i) ==
    /\ threads[i].pc = "start"
    /\ LET r == ParseToken(threads[i].request.event)
       IN  threads' =
             IF r.kind = "raise"
             THEN [threads EXCEPT ![i].pc = "done", ![i].outcome = Answered(r.exc)]
             ELSE [threads EXCEPT
                     ![i].token = r.value,
                     ![i].api_accessed = (Prefix(r.value, 4) = AmpPrefix),
                     ![i].pc = IF Prefix(r.value, 4) = AmpPrefix
                               THEN "query" ELSE "jwt"]
    /\ UNCHANGED <<api_keys_table, ThreadRest>>

\* lines 462-468: api_claims reads the registry
ThreadQuery(i) ==
    /\ threads[i].pc = "query"
    /\ threads' = [threads EXCEPT ![i].snapshot = api_keys_table,
                                  ![i].pc = "resolve"]
    /\ UNCHANGED <<api_keys_table, ThreadRest>>

\* lines 470-523: api_claims checks what it read and touches the record as
\* the registry holds it by then
ThreadResolve(i) ==
    /\ threads[i].pc = "resolve"
    /\ LET out == ApiClaims(threads[i].token, threads[i].snapshot, access_types,
                            env, now, CostCalcTable)
       IN  /\ threads' = [threads EXCEPT ![i].resolved = out.result,
                                         ![i].pc = "rest"]
           /\ api_keys_table' =
                 IF out.writes = <<>> THEN api_keys_table
                 ELSE TouchLastAccessed(api_keys_table, out.writes[1].key, now)
    /\ UNCHANGED ThreadRest

\* lines 153-272: get_claims
ThreadJwt(i) ==
    /\ threads[i].pc = "jwt"
    /\ threads' =
          [threads EXCEPT
             ![i].resolved = GetClaims(threads[i].token, env,
                                       threads[i].request.jwks,
                                       AccountsTable).result,
             ![i].pc = "rest"]
    /\ UNCHANGED <<api_keys_table, ThreadRest>>

\* lines 700-752: the rest of the wrapper
ThreadFinish(i) ==
    /\ threads[i].pc = "rest"
    /\ threads' =
          [threads EXCEPT
             ![i].outcome = AfterClaims(threads[i].request, threads[i].token,
                                        threads[i].api_accessed,
                                        threads[i].resolved, validate_rules,
                                        permission_checker),
             ![i].pc = "done"]
    /\ UNCHANGED <<api_keys_table, ThreadRest>>

NextConcurrent ==
    \E i \in Threads :
        \/ ThreadStart(i)
        \/ ThreadQuery(i)
        \/ ThreadResolve(i)
        \/ ThreadJwt(i)
        \/ ThreadFinish(i)

SpecConcurrent == InitConcurrent /\ [][NextConcurrent]_vars

ThreadDone(i) == threads[i].pc = "done"

\* C30: whatever the interleaving of the steps of the two wrappers, a request
\* that is done has the response, the exception and the handler call it has
\* when it is served alone from the initial registry
C30_AsWhenAlone ==
    \A i \in Threads :
        ThreadDone(i) =>
            threads[i].outcome =
                WrapperAlone(threads[i].request, InitialApiKeys, access_types,
                             validate_rules, permission_checker, env, now)

\* both requests bear the same key and the second read the registry after
\* the first had touched the record
C30_Witness ==
    /\ ThreadDone(1) /\ ThreadDone(2)
    /\ threads[1].token = TokFull /\ threads[2].token = TokFull
    /\ \E id \in DOMAIN threads[2].snapshot :
          "lastAccessed" \in DOMAIN threads[2].snapshot[id]
    /\ threads[1].outcome.response.statusCode = 200
    /\ threads[2].outcome.response.statusCode = 200

====
